---- MODULE Spec2Model ----
(***************************************************************************)
(* The Braille reference library of the ReadAble backend:                   *)
(*   data/braille_library.py    the seed table and the table operations     *)
(*   models/braille_models.py   BrailleCategory, BrailleCharacter,          *)
(*                              BrailleLibraryResponse                      *)
(*   routers/braille_library.py the HTTP handlers over the table            *)
(*                                                                         *)
(* Text is a sequence of Unicode code points (U+3131 is 12593), so that     *)
(* lower(), strip() and the substring test of the code are computed and     *)
(* not assumed.  Identifiers that the code only compares for equality (ids, *)
(* category values, handler names) are strings.                             *)
(***************************************************************************)
EXTENDS Integers, Sequences, FiniteSets, TLC

\* Longest search text a request carries.
MaxQueryLen == 3

\* The longest path of a request, in segments below the router's prefix.
MaxPathLen == 3

\* The most documents ever added to the collection 'user_vocabulary'.
MaxVocabDocs == 2

\* The most documents ever added to the collection 'users'.
MaxUsers == 3

\* The most questions of a quiz, the most answers of a submission, and the
\* most documents ever added to the collection 'quiz_results'.
MaxQuestions == 2

MaxAnswers == 3

MaxResults == 1

\* The callers whose requests the server has in hand at once.
NumClients == 2

\* Optional[T]: None, or a present value.
None == <<>>

Some(v) == <<v>>

\* Python truthiness of an Optional[str]: present and not empty.
Truthy(opt) == opt # None /\ opt[1] # <<>>

\* Python truthiness of an Optional[BrailleCategory] (a str enum).
TruthyCategory(opt) == opt # None /\ opt[1] # ""

(***************************************************************************)
(* models/braille_models.py                                                 *)
(***************************************************************************)
BrailleCategory ==
  [ CONSONANT_INITIAL |-> "consonant_initial",
    CONSONANT_FINAL   |-> "consonant_final",
    VOWEL             |-> "vowel",
    VOWEL_SEQUENCE    |-> "vowel_sequence",
    NUMBER            |-> "number",
    PUNCTUATION       |-> "punctuation",
    SPECIAL           |-> "special",
    PREFIX            |-> "prefix" ]

\* The members of the enum in declaration order, which is its iteration order.
BrailleCategoryMembers ==
  << "CONSONANT_INITIAL", "CONSONANT_FINAL", "VOWEL", "VOWEL_SEQUENCE",
     "NUMBER", "PUNCTUATION", "SPECIAL", "PREFIX" >>

\* BrailleCategory(value): the values the enum accepts.
BrailleCategoryValues == { BrailleCategory[m] : m \in DOMAIN BrailleCategory }

\* The model reading the dot numbers as zero-based positions in the cell.
BrailleCharacter_zero_based(char) ==
  [ id             |-> char.id,
    character      |-> char.character,
    braille_dots   |-> [ i \in 1..Len(char.braille_dots) |-> char.braille_dots[i] - 1 ],
    category       |-> char.category,
    name           |-> char.name,
    description    |-> IF "description" \in DOMAIN char
                       THEN Some(char.description) ELSE None,
    usage_notes    |-> IF "usage_notes" \in DOMAIN char
                       THEN Some(char.usage_notes) ELSE None,
    rule_reference |-> IF "rule_reference" \in DOMAIN char
                       THEN Some(char.rule_reference) ELSE None,
    examples       |-> IF "examples" \in DOMAIN char THEN char.examples ELSE <<>> ]

\* BrailleCharacter(**char): the required fields are copied, the optional ones
\* default to None and examples to the empty list.
BrailleCharacter(char) ==
  [ id             |-> char.id,
    character      |-> char.character,
    braille_dots   |-> char.braille_dots,
    category       |-> char.category,
    name           |-> char.name,
    description    |-> IF "description" \in DOMAIN char
                       THEN Some(char.description) ELSE None,
    usage_notes    |-> IF "usage_notes" \in DOMAIN char
                       THEN Some(char.usage_notes) ELSE None,
    rule_reference |-> IF "rule_reference" \in DOMAIN char
                       THEN Some(char.rule_reference) ELSE None,
    examples       |-> IF "examples" \in DOMAIN char THEN char.examples ELSE <<>> ]

\* BrailleCharacter(**char) is accepted: the required fields are there and the
\* category is a value of the enum.  Otherwise it raises ValidationError.
validates(char) ==
  /\ {"id", "character", "braille_dots", "category", "name"} \subseteq DOMAIN char
  /\ char.category \in BrailleCategoryValues

BrailleLibraryResponse(total_count, categories, characters) ==
  [ total_count |-> total_count, categories |-> categories, characters |-> characters ]

(***************************************************************************)
(* data/braille_library.py: the seed groups                                 *)
(***************************************************************************)
\* initial consonants (section 1): 19 entries
INITIAL_CONSONANTS ==
  <<
    [ id |-> "cons_initial_01", character |-> <<12593>>, braille_dots |-> <<4>>,
      category |-> BrailleCategory.CONSONANT_INITIAL, name |-> <<44592, 50669>>,
      description |-> <<52488, 49457, 32, 44592, 50669>>, rule_reference |-> <<51228, 49,
      51208, 32, 51228, 49, 54637>>, examples |-> << <<44032>>, <<44256>>, <<44396>> >> ],
    [ id |-> "cons_initial_02", character |-> <<12596>>, braille_dots |-> <<1, 4>>,
      category |-> BrailleCategory.CONSONANT_INITIAL, name |-> <<45768, 51008>>,
      description |-> <<52488, 49457, 32, 45768, 51008>>, rule_reference |-> <<51228, 49,
      51208, 32, 51228, 49, 54637>>, examples |-> << <<45208>>, <<45432>>, <<45572>> >> ],
    [ id |-> "cons_initial_03", character |-> <<12599>>, braille_dots |-> <<2, 4>>,
      category |-> BrailleCategory.CONSONANT_INITIAL, name |-> <<46356, 44543>>,
      description |-> <<52488, 49457, 32, 46356, 44543>>, rule_reference |-> <<51228, 49,
      51208, 32, 51228, 49, 54637>>, examples |-> << <<45796>>, <<46020>>, <<46160>> >> ],
    [ id |-> "cons_initial_04", character |-> <<12601>>, braille_dots |-> <<5>>,
      category |-> BrailleCategory.CONSONANT_INITIAL, name |-> <<47532, 51012>>,
      description |-> <<52488, 49457, 32, 47532, 51012>>, rule_reference |-> <<51228, 49,
      51208, 32, 51228, 49, 54637>>, examples |-> << <<46972>>, <<47196>>, <<47336>> >> ],
    [ id |-> "cons_initial_05", character |-> <<12609>>, braille_dots |-> <<1, 5>>,
      category |-> BrailleCategory.CONSONANT_INITIAL, name |-> <<48120, 51020>>,
      description |-> <<52488, 49457, 32, 48120, 51020>>, rule_reference |-> <<51228, 49,
      51208, 32, 51228, 49, 54637>>, examples |-> << <<47560>>, <<47784>>, <<47924>> >> ],
    [ id |-> "cons_initial_06", character |-> <<12610>>, braille_dots |-> <<4, 5>>,
      category |-> BrailleCategory.CONSONANT_INITIAL, name |-> <<48708, 51021>>,
      description |-> <<52488, 49457, 32, 48708, 51021>>, rule_reference |-> <<51228, 49,
      51208, 32, 51228, 49, 54637>>, examples |-> << <<48148>>, <<48372>>, <<48512>> >> ],
    [ id |-> "cons_initial_07", character |-> <<12613>>, braille_dots |-> <<1, 2, 3>>,
      category |-> BrailleCategory.CONSONANT_INITIAL, name |-> <<49884, 50743>>,
      description |-> <<52488, 49457, 32, 49884, 50743>>, rule_reference |-> <<51228, 49,
      51208, 32, 51228, 49, 54637>>, examples |-> << <<49324>>, <<49548>>, <<49688>> >> ],
    [ id |-> "cons_initial_08", character |-> <<12615>>, braille_dots |-> <<1, 2, 4, 5>>,
      category |-> BrailleCategory.CONSONANT_INITIAL, name |-> <<51060, 51025>>,
      description |-> <<52488, 49457, 32, 51060, 51025, 32, 40, 47924, 51020, 41>>,
      rule_reference |-> <<51228, 49, 51208, 32, 51228, 49, 54637>>,
      usage_notes |-> <<52488, 49457, 50640, 49436, 32, 47924, 51020, 51012, 32, 45208,
      53440, 45252>>, examples |-> << <<50500>>, <<50724>>, <<50864>> >> ],
    [ id |-> "cons_initial_09", character |-> <<12616>>, braille_dots |-> <<4, 6>>,
      category |-> BrailleCategory.CONSONANT_INITIAL, name |-> <<51648, 51026>>,
      description |-> <<52488, 49457, 32, 51648, 51026>>, rule_reference |-> <<51228, 49,
      51208, 32, 51228, 49, 54637>>, examples |-> << <<51088>>, <<51312>>, <<51452>> >> ],
    [ id |-> "cons_initial_10", character |-> <<12618>>, braille_dots |-> <<5, 6>>,
      category |-> BrailleCategory.CONSONANT_INITIAL, name |-> <<52824, 51027>>,
      description |-> <<52488, 49457, 32, 52824, 51027>>, rule_reference |-> <<51228, 49,
      51208, 32, 51228, 49, 54637>>, examples |-> << <<52264>>, <<52488>>, <<52628>> >> ],
    [ id |-> "cons_initial_11", character |-> <<12619>>, braille_dots |-> <<1, 2, 4, 5, 6>>,
      category |-> BrailleCategory.CONSONANT_INITIAL, name |-> <<53412, 51028>>,
      description |-> <<52488, 49457, 32, 53412, 51028>>, rule_reference |-> <<51228, 49,
      51208, 32, 51228, 49, 54637>>, examples |-> << <<52852>>, <<53076>>, <<53216>> >> ],
    [ id |-> "cons_initial_12", character |-> <<12620>>, braille_dots |-> <<1, 2, 5, 6>>,
      category |-> BrailleCategory.CONSONANT_INITIAL, name |-> <<54000, 51029>>,
      description |-> <<52488, 49457, 32, 54000, 51029>>, rule_reference |-> <<51228, 49,
      51208, 32, 51228, 49, 54637>>, examples |-> << <<53440>>, <<53664>>, <<53804>> >> ],
    [ id |-> "cons_initial_13", character |-> <<12621>>, braille_dots |-> <<1, 4, 5, 6>>,
      category |-> BrailleCategory.CONSONANT_INITIAL, name |-> <<54588, 51030>>,
      description |-> <<52488, 49457, 32, 54588, 51030>>, rule_reference |-> <<51228, 49,
      51208, 32, 51228, 49, 54637>>, examples |-> << <<54028>>, <<54252>>, <<54392>> >> ],
    [ id |-> "cons_initial_14", character |-> <<12622>>, braille_dots |-> <<2, 4, 5, 6>>,
      category |-> BrailleCategory.CONSONANT_INITIAL, name |-> <<55176, 51031>>,
      description |-> <<52488, 49457, 32, 55176, 51031>>, rule_reference |-> <<51228, 49,
      51208, 32, 51228, 49, 54637>>, examples |-> << <<54616>>, <<54840>>, <<54980>> >> ],
    [ id |-> "cons_initial_15", character |-> <<12594>>, braille_dots |-> <<4, 4>>,
      category |-> BrailleCategory.CONSONANT_INITIAL, name |-> <<49933, 44592, 50669>>,
      description |-> <<46108, 49548, 47532, 32, 44592, 50669>>, rule_reference |-> <<51228,
      49, 51208, 32, 51228, 50, 54637>>, usage_notes |-> <<44057, 51008, 32, 51088, 51020,
      51012, 32, 46160, 32, 48264, 32, 51201, 51020>>, examples |-> << <<44620>>, <<44844>>,
      <<44984>> >> ],
    [ id |-> "cons_initial_16", character |-> <<12600>>, braille_dots |-> <<2, 4, 2, 4>>,
      category |-> BrailleCategory.CONSONANT_INITIAL, name |-> <<49933, 46356, 44543>>,
      description |-> <<46108, 49548, 47532, 32, 46356, 44543>>, rule_reference |-> <<51228,
      49, 51208, 32, 51228, 50, 54637>>, usage_notes |-> <<44057, 51008, 32, 51088, 51020,
      51012, 32, 46160, 32, 48264, 32, 51201, 51020>>, examples |-> << <<46384>>, <<46608>>,
      <<46748>> >> ],
    [ id |-> "cons_initial_17", character |-> <<12611>>, braille_dots |-> <<4, 5, 4, 5>>,
      category |-> BrailleCategory.CONSONANT_INITIAL, name |-> <<49933, 48708, 51021>>,
      description |-> <<46108, 49548, 47532, 32, 48708, 51021>>, rule_reference |-> <<51228,
      49, 51208, 32, 51228, 50, 54637>>, usage_notes |-> <<44057, 51008, 32, 51088, 51020,
      51012, 32, 46160, 32, 48264, 32, 51201, 51020>>, examples |-> << <<48736>>, <<48960>>,
      <<49100>> >> ],
    [ id |-> "cons_initial_18", character |-> <<12614>>, braille_dots |-> <<1, 2, 3, 1, 2,
      3>>, category |-> BrailleCategory.CONSONANT_INITIAL, name |-> <<49933, 49884, 50743>>,
      description |-> <<46108, 49548, 47532, 32, 49884, 50743>>, rule_reference |-> <<51228,
      49, 51208, 32, 51228, 50, 54637>>, usage_notes |-> <<44057, 51008, 32, 51088, 51020,
      51012, 32, 46160, 32, 48264, 32, 51201, 51020>>, examples |-> << <<49912>>, <<50136>>,
      <<50276>> >> ],
    [ id |-> "cons_initial_19", character |-> <<12617>>, braille_dots |-> <<4, 6, 4, 6>>,
      category |-> BrailleCategory.CONSONANT_INITIAL, name |-> <<49933, 51648, 51026>>,
      description |-> <<46108, 49548, 47532, 32, 51648, 51026>>, rule_reference |-> <<51228,
      49, 51208, 32, 51228, 50, 54637>>, usage_notes |-> <<44057, 51008, 32, 51088, 51020,
      51012, 32, 46160, 32, 48264, 32, 51201, 51020>>, examples |-> << <<51676>>, <<51900>>,
      <<52040>> >> ]
  >>

\* final consonants: 14 entries
FINAL_CONSONANTS ==
  <<
    [ id |-> "cons_final_01", character |-> <<12593>>, braille_dots |-> <<1>>,
      category |-> BrailleCategory.CONSONANT_FINAL, name |-> <<48155, 52840, 32, 44592,
      50669>>, description |-> <<51333, 49457, 32, 44592, 50669>>,
      rule_reference |-> <<51228, 50, 51208>>, examples |-> << <<50501>>, <<44397>>,
      <<44201>> >> ],
    [ id |-> "cons_final_02", character |-> <<12596>>, braille_dots |-> <<2, 5>>,
      category |-> BrailleCategory.CONSONANT_FINAL, name |-> <<48155, 52840, 32, 45768,
      51008>>, description |-> <<51333, 49457, 32, 45768, 51008>>,
      rule_reference |-> <<51228, 50, 51208>>, examples |-> << <<50504>>, <<45576>>,
      <<45912>> >> ],
    [ id |-> "cons_final_03", character |-> <<12599>>, braille_dots |-> <<2, 4, 6>>,
      category |-> BrailleCategory.CONSONANT_FINAL, name |-> <<48155, 52840, 32, 46356,
      44543>>, description |-> <<51333, 49457, 32, 46356, 44543>>,
      rule_reference |-> <<51228, 50, 51208>>, examples |-> << <<50507>>, <<44263>>,
      <<48127>> >> ],
    [ id |-> "cons_final_04", character |-> <<12601>>, braille_dots |-> <<2>>,
      category |-> BrailleCategory.CONSONANT_FINAL, name |-> <<48155, 52840, 32, 47532,
      51012>>, description |-> <<51333, 49457, 32, 47532, 51012>>,
      rule_reference |-> <<51228, 50, 51208>>, examples |-> << <<50508>>, <<44600>>,
      <<47932>> >> ],
    [ id |-> "cons_final_05", character |-> <<12609>>, braille_dots |-> <<2, 6>>,
      category |-> BrailleCategory.CONSONANT_FINAL, name |-> <<48155, 52840, 32, 48120,
      51020>>, description |-> <<51333, 49457, 32, 48120, 51020>>,
      rule_reference |-> <<51228, 50, 51208>>, examples |-> << <<50516>>, <<44552>>,
      <<49900>> >> ],
    [ id |-> "cons_final_06", character |-> <<12610>>, braille_dots |-> <<1, 2>>,
      category |-> BrailleCategory.CONSONANT_FINAL, name |-> <<48155, 52840, 32, 48708,
      51021>>, description |-> <<51333, 49457, 32, 48708, 51021>>,
      rule_reference |-> <<51228, 50, 51208>>, examples |-> << <<50517>>, <<44553>>,
      <<51077>> >> ],
    [ id |-> "cons_final_07", character |-> <<12613>>, braille_dots |-> <<3, 4>>,
      category |-> BrailleCategory.CONSONANT_FINAL, name |-> <<48155, 52840, 32, 49884,
      50743>>, description |-> <<51333, 49457, 32, 49884, 50743>>,
      rule_reference |-> <<51228, 50, 51208>>, examples |-> << <<50520>>, <<44263>>,
      <<51080>> >> ],
    [ id |-> "cons_final_08", character |-> <<12615>>, braille_dots |-> <<2, 6>>,
      category |-> BrailleCategory.CONSONANT_FINAL, name |-> <<48155, 52840, 32, 51060,
      51025>>, description |-> <<51333, 49457, 32, 51060, 51025>>,
      rule_reference |-> <<51228, 50, 51208>>, examples |-> << <<50521>>, <<44277>>,
      <<44053>> >> ],
    [ id |-> "cons_final_09", character |-> <<12616>>, braille_dots |-> <<3, 5>>,
      category |-> BrailleCategory.CONSONANT_FINAL, name |-> <<48155, 52840, 32, 51648,
      51026>>, description |-> <<51333, 49457, 32, 51648, 51026>>,
      rule_reference |-> <<51228, 50, 51208>>, examples |-> << <<50522>>, <<44278>> >> ],
    [ id |-> "cons_final_10", character |-> <<12618>>, braille_dots |-> <<3, 6>>,
      category |-> BrailleCategory.CONSONANT_FINAL, name |-> <<48155, 52840, 32, 52824,
      51027>>, description |-> <<51333, 49457, 32, 52824, 51027>>,
      rule_reference |-> <<51228, 50, 51208>>, examples |-> << <<50527>>, <<44286>> >> ],
    [ id |-> "cons_final_11", character |-> <<12619>>, braille_dots |-> <<1, 3, 4, 5, 6>>,
      category |-> BrailleCategory.CONSONANT_FINAL, name |-> <<48155, 52840, 32, 53412,
      51028>>, description |-> <<51333, 49457, 32, 53412, 51028>>,
      rule_reference |-> <<51228, 50, 51208>>, examples |-> << <<50524>> >> ],
    [ id |-> "cons_final_12", character |-> <<12620>>, braille_dots |-> <<3, 4, 5, 6>>,
      category |-> BrailleCategory.CONSONANT_FINAL, name |-> <<48155, 52840, 32, 54000,
      51029>>, description |-> <<51333, 49457, 32, 54000, 51029>>,
      rule_reference |-> <<51228, 50, 51208>>, examples |-> << <<50525>>, <<54629>> >> ],
    [ id |-> "cons_final_13", character |-> <<12621>>, braille_dots |-> <<1, 3, 5, 6>>,
      category |-> BrailleCategory.CONSONANT_FINAL, name |-> <<48155, 52840, 32, 54588,
      51030>>, description |-> <<51333, 49457, 32, 54588, 51030>>,
      rule_reference |-> <<51228, 50, 51208>>, examples |-> << <<50526>>, <<51086>> >> ],
    [ id |-> "cons_final_14", character |-> <<12622>>, braille_dots |-> <<3, 4, 6>>,
      category |-> BrailleCategory.CONSONANT_FINAL, name |-> <<48155, 52840, 32, 55176,
      51031>>, description |-> <<51333, 49457, 32, 55176, 51031>>,
      rule_reference |-> <<51228, 50, 51208>>, examples |-> << <<50527>>, <<45459>>,
      <<51339>> >> ]
  >>

\* vowels: 21 entries
VOWELS ==
  <<
    [ id |-> "vowel_01", character |-> <<12623>>, braille_dots |-> <<1, 2, 6>>,
      category |-> BrailleCategory.VOWEL, name |-> <<47784, 51020, 32, 50500>>,
      description |-> <<45800, 47784, 51020, 32, 12623>>, rule_reference |-> <<51228, 51,
      51208>>, examples |-> << <<50500>>, <<44032>>, <<45208>> >> ],
    [ id |-> "vowel_02", character |-> <<12625>>, braille_dots |-> <<3, 4, 5>>,
      category |-> BrailleCategory.VOWEL, name |-> <<47784, 51020, 32, 50556>>,
      description |-> <<45800, 47784, 51020, 32, 12625>>, rule_reference |-> <<51228, 51,
      51208>>, examples |-> << <<50556>>, <<44088>>, <<45264>> >> ],
    [ id |-> "vowel_03", character |-> <<12627>>, braille_dots |-> <<2, 3, 5>>,
      category |-> BrailleCategory.VOWEL, name |-> <<47784, 51020, 32, 50612>>,
      description |-> <<45800, 47784, 51020, 32, 12627>>, rule_reference |-> <<51228, 51,
      51208>>, examples |-> << <<50612>>, <<44144>>, <<45320>> >> ],
    [ id |-> "vowel_04", character |-> <<12629>>, braille_dots |-> <<1, 3, 4, 6>>,
      category |-> BrailleCategory.VOWEL, name |-> <<47784, 51020, 32, 50668>>,
      description |-> <<45800, 47784, 51020, 32, 12629>>, rule_reference |-> <<51228, 51,
      51208>>, examples |-> << <<50668>>, <<44200>>, <<45376>> >> ],
    [ id |-> "vowel_05", character |-> <<12631>>, braille_dots |-> <<1, 3, 6>>,
      category |-> BrailleCategory.VOWEL, name |-> <<47784, 51020, 32, 50724>>,
      description |-> <<45800, 47784, 51020, 32, 12631>>, rule_reference |-> <<51228, 51,
      51208>>, examples |-> << <<50724>>, <<44256>>, <<45432>> >> ],
    [ id |-> "vowel_06", character |-> <<12635>>, braille_dots |-> <<3, 4, 6>>,
      category |-> BrailleCategory.VOWEL, name |-> <<47784, 51020, 32, 50836>>,
      description |-> <<45800, 47784, 51020, 32, 12635>>, rule_reference |-> <<51228, 51,
      51208>>, examples |-> << <<50836>>, <<44368>>, <<45544>> >> ],
    [ id |-> "vowel_07", character |-> <<12636>>, braille_dots |-> <<1, 3, 4>>,
      category |-> BrailleCategory.VOWEL, name |-> <<47784, 51020, 32, 50864>>,
      description |-> <<45800, 47784, 51020, 32, 12636>>, rule_reference |-> <<51228, 51,
      51208>>, examples |-> << <<50864>>, <<44396>>, <<45572>> >> ],
    [ id |-> "vowel_08", character |-> <<12640>>, braille_dots |-> <<1, 3, 4, 5, 6>>,
      category |-> BrailleCategory.VOWEL, name |-> <<47784, 51020, 32, 50976>>,
      description |-> <<45800, 47784, 51020, 32, 12640>>, rule_reference |-> <<51228, 51,
      51208>>, examples |-> << <<50976>>, <<44508>>, <<45684>> >> ],
    [ id |-> "vowel_09", character |-> <<12641>>, braille_dots |-> <<2, 4, 6>>,
      category |-> BrailleCategory.VOWEL, name |-> <<47784, 51020, 32, 51004>>,
      description |-> <<45800, 47784, 51020, 32, 12641>>, rule_reference |-> <<51228, 51,
      51208>>, examples |-> << <<51004>>, <<44536>>, <<45712>> >> ],
    [ id |-> "vowel_10", character |-> <<12643>>, braille_dots |-> <<1, 3, 5>>,
      category |-> BrailleCategory.VOWEL, name |-> <<47784, 51020, 32, 51060>>,
      description |-> <<45800, 47784, 51020, 32, 12643>>, rule_reference |-> <<51228, 51,
      51208>>, examples |-> << <<51060>>, <<44592>>, <<45768>> >> ],
    [ id |-> "vowel_11", character |-> <<12624>>, braille_dots |-> <<1, 2, 3, 5>>,
      category |-> BrailleCategory.VOWEL, name |-> <<47784, 51020, 32, 50528>>,
      description |-> <<51060, 51473, 47784, 51020, 32, 12624>>, rule_reference |-> <<51228,
      52, 51208>>, examples |-> << <<50528>>, <<44060>>, <<45236>> >> ],
    [ id |-> "vowel_12", character |-> <<12626>>, braille_dots |-> <<3, 4, 5, 1, 3, 5>>,
      category |-> BrailleCategory.VOWEL, name |-> <<47784, 51020, 32, 50584>>,
      description |-> <<51060, 51473, 47784, 51020, 32, 12626>>, rule_reference |-> <<51228,
      52, 51208>>, usage_notes |-> <<12625, 32, 43, 32, 12643, 47196, 32, 51201, 51020>>,
      examples |-> << <<50584>>, <<44116>>, <<45292>> >> ],
    [ id |-> "vowel_13", character |-> <<12628>>, braille_dots |-> <<1, 3, 4, 5>>,
      category |-> BrailleCategory.VOWEL, name |-> <<47784, 51020, 32, 50640>>,
      description |-> <<51060, 51473, 47784, 51020, 32, 12628>>, rule_reference |-> <<51228,
      52, 51208>>, examples |-> << <<50640>>, <<44172>>, <<45348>> >> ],
    [ id |-> "vowel_14", character |-> <<12630>>, braille_dots |-> <<1, 3, 4, 6, 1, 3, 5>>,
      category |-> BrailleCategory.VOWEL, name |-> <<47784, 51020, 32, 50696>>,
      description |-> <<51060, 51473, 47784, 51020, 32, 12630>>, rule_reference |-> <<51228,
      52, 51208>>, usage_notes |-> <<12629, 32, 43, 32, 12643, 47196, 32, 51201, 51020>>,
      examples |-> << <<50696>>, <<44228>>, <<45404>> >> ],
    [ id |-> "vowel_15", character |-> <<12632>>, braille_dots |-> <<1, 3, 6, 1, 2, 6>>,
      category |-> BrailleCategory.VOWEL, name |-> <<47784, 51020, 32, 50752>>,
      description |-> <<51060, 51473, 47784, 51020, 32, 12632>>, rule_reference |-> <<51228,
      52, 51208>>, usage_notes |-> <<12631, 32, 43, 32, 12623, 47196, 32, 51201, 51020>>,
      examples |-> << <<50752>>, <<44284>>, <<45460>> >> ],
    [ id |-> "vowel_16", character |-> <<12633>>, braille_dots |-> <<1, 3, 6, 1, 2, 3, 5>>,
      category |-> BrailleCategory.VOWEL, name |-> <<47784, 51020, 32, 50780>>,
      description |-> <<51060, 51473, 47784, 51020, 32, 12633>>, rule_reference |-> <<51228,
      52, 51208>>, usage_notes |-> <<12631, 32, 43, 32, 12624, 47196, 32, 51201, 51020>>,
      examples |-> << <<50780>>, <<44312>>, <<45488>> >> ],
    [ id |-> "vowel_17", character |-> <<12634>>, braille_dots |-> <<1, 3, 6, 1, 3, 5>>,
      category |-> BrailleCategory.VOWEL, name |-> <<47784, 51020, 32, 50808>>,
      description |-> <<51060, 51473, 47784, 51020, 32, 12634>>, rule_reference |-> <<51228,
      52, 51208>>, usage_notes |-> <<12631, 32, 43, 32, 12643, 47196, 32, 51201, 51020>>,
      examples |-> << <<50808>>, <<44340>>, <<45516>> >> ],
    [ id |-> "vowel_18", character |-> <<12637>>, braille_dots |-> <<1, 3, 4, 2, 3, 5>>,
      category |-> BrailleCategory.VOWEL, name |-> <<47784, 51020, 32, 50892>>,
      description |-> <<51060, 51473, 47784, 51020, 32, 12637>>, rule_reference |-> <<51228,
      52, 51208>>, usage_notes |-> <<12636, 32, 43, 32, 12627, 47196, 32, 51201, 51020>>,
      examples |-> << <<50892>>, <<44424>>, <<45600>> >> ],
    [ id |-> "vowel_19", character |-> <<12638>>, braille_dots |-> <<1, 3, 4, 1, 3, 4, 5>>,
      category |-> BrailleCategory.VOWEL, name |-> <<47784, 51020, 32, 50920>>,
      description |-> <<51060, 51473, 47784, 51020, 32, 12638>>, rule_reference |-> <<51228,
      52, 51208>>, usage_notes |-> <<12636, 32, 43, 32, 12628, 47196, 32, 51201, 51020>>,
      examples |-> << <<50920>>, <<44452>>, <<45628>> >> ],
    [ id |-> "vowel_20", character |-> <<12639>>, braille_dots |-> <<1, 3, 4, 1, 3, 5>>,
      category |-> BrailleCategory.VOWEL, name |-> <<47784, 51020, 32, 50948>>,
      description |-> <<51060, 51473, 47784, 51020, 32, 12639>>, rule_reference |-> <<51228,
      52, 51208>>, usage_notes |-> <<12636, 32, 43, 32, 12643, 47196, 32, 51201, 51020>>,
      examples |-> << <<50948>>, <<44480>>, <<45656>> >> ],
    [ id |-> "vowel_21", character |-> <<12642>>, braille_dots |-> <<2, 4, 6, 1, 3, 5>>,
      category |-> BrailleCategory.VOWEL, name |-> <<47784, 51020, 32, 51032>>,
      description |-> <<51060, 51473, 47784, 51020, 32, 12642>>, rule_reference |-> <<51228,
      52, 51208>>, usage_notes |-> <<12641, 32, 43, 32, 12643, 47196, 32, 51201, 51020>>,
      examples |-> << <<51032>>, <<55148>> >> ]
  >>

\* vowel sequences: 8 entries
VOWEL_SEQUENCES ==
  <<
    [ id |-> "vowel_seq_01", character |-> <<12625, 12643>>, braille_dots |-> <<3, 4, 5, 1,
      3, 5>>, category |-> BrailleCategory.VOWEL_SEQUENCE, name |-> <<47784, 51020, 32,
      50672, 49604, 32, 12625, 12643>>, description |-> <<50556, 32, 43, 32, 51060, 32,
      50672, 49604>>, rule_reference |-> <<51228, 53, 51208>>, usage_notes |-> <<46160, 32,
      47784, 51020, 51012, 32, 44033, 44033, 32, 51201, 51020>>, examples |-> << <<50556,
      51060>>, <<47616, 51060>> >> ],
    [ id |-> "vowel_seq_02", character |-> <<12629, 12643>>, braille_dots |-> <<1, 3, 4, 6,
      1, 3, 5>>, category |-> BrailleCategory.VOWEL_SEQUENCE, name |-> <<47784, 51020, 32,
      50672, 49604, 32, 12629, 12643>>, description |-> <<50668, 32, 43, 32, 51060, 32,
      50672, 49604>>, rule_reference |-> <<51228, 53, 51208>>, usage_notes |-> <<46160, 32,
      47784, 51020, 51012, 32, 44033, 44033, 32, 51201, 51020>>, examples |-> << <<50668,
      51060>>, <<47728, 51060>> >> ],
    [ id |-> "vowel_seq_03", character |-> <<12631, 12623>>, braille_dots |-> <<1, 3, 6, 1,
      2, 6>>, category |-> BrailleCategory.VOWEL_SEQUENCE, name |-> <<47784, 51020, 32,
      50672, 49604, 32, 12631, 12623>>, description |-> <<50724, 32, 43, 32, 50500, 32,
      50672, 49604>>, rule_reference |-> <<51228, 53, 51208>>, usage_notes |-> <<46160, 32,
      47784, 51020, 51012, 32, 44033, 44033, 32, 51201, 51020>>, examples |-> << <<50724,
      50500>>, <<48372, 50500>> >> ],
    [ id |-> "vowel_seq_04", character |-> <<12631, 12624>>, braille_dots |-> <<1, 3, 6, 1,
      2, 3, 5>>, category |-> BrailleCategory.VOWEL_SEQUENCE, name |-> <<47784, 51020, 32,
      50672, 49604, 32, 12631, 12624>>, description |-> <<50724, 32, 43, 32, 50528, 32,
      50672, 49604>>, rule_reference |-> <<51228, 53, 51208>>, usage_notes |-> <<46160, 32,
      47784, 51020, 51012, 32, 44033, 44033, 32, 51201, 51020>>, examples |-> << <<50724,
      50528>>, <<48372, 50528>> >> ],
    [ id |-> "vowel_seq_05", character |-> <<12636, 12627>>, braille_dots |-> <<1, 3, 4, 2,
      3, 5>>, category |-> BrailleCategory.VOWEL_SEQUENCE, name |-> <<47784, 51020, 32,
      50672, 49604, 32, 12636, 12627>>, description |-> <<50864, 32, 43, 32, 50612, 32,
      50672, 49604>>, rule_reference |-> <<51228, 53, 51208>>, usage_notes |-> <<46160, 32,
      47784, 51020, 51012, 32, 44033, 44033, 32, 51201, 51020>>, examples |-> << <<50864,
      50612>>, <<44396, 50612>> >> ],
    [ id |-> "vowel_seq_06", character |-> <<12636, 12628>>, braille_dots |-> <<1, 3, 4, 1,
      3, 4, 5>>, category |-> BrailleCategory.VOWEL_SEQUENCE, name |-> <<47784, 51020, 32,
      50672, 49604, 32, 12636, 12628>>, description |-> <<50864, 32, 43, 32, 50640, 32,
      50672, 49604>>, rule_reference |-> <<51228, 53, 51208>>, usage_notes |-> <<46160, 32,
      47784, 51020, 51012, 32, 44033, 44033, 32, 51201, 51020>>, examples |-> << <<50864,
      50640>>, <<44396, 50640>> >> ],
    [ id |-> "vowel_seq_07", character |-> <<12636, 12643>>, braille_dots |-> <<1, 3, 4, 1,
      3, 5>>, category |-> BrailleCategory.VOWEL_SEQUENCE, name |-> <<47784, 51020, 32,
      50672, 49604, 32, 12636, 12643>>, description |-> <<50864, 32, 43, 32, 51060, 32,
      50672, 49604>>, rule_reference |-> <<51228, 53, 51208>>, usage_notes |-> <<46160, 32,
      47784, 51020, 51012, 32, 44033, 44033, 32, 51201, 51020>>, examples |-> << <<50864,
      51060>>, <<44396, 51060>> >> ],
    [ id |-> "vowel_seq_08", character |-> <<12641, 12643>>, braille_dots |-> <<2, 4, 6, 1,
      3, 5>>, category |-> BrailleCategory.VOWEL_SEQUENCE, name |-> <<47784, 51020, 32,
      50672, 49604, 32, 12641, 12643>>, description |-> <<51004, 32, 43, 32, 51060, 32,
      50672, 49604>>, rule_reference |-> <<51228, 53, 51208>>, usage_notes |-> <<46160, 32,
      47784, 51020, 51012, 32, 44033, 44033, 32, 51201, 51020>>, examples |-> << <<51004,
      51060>>, <<44536, 51060>> >> ]
  >>

\* the number sign and the digits: 11 entries
NUMBERS ==
  <<
    [ id |-> "number_prefix", character |-> <<35>>, braille_dots |-> <<3, 4, 5, 6>>,
      category |-> BrailleCategory.PREFIX, name |-> <<49688, 54364>>,
      description |-> <<49707, 51088, 32, 49884, 51089, 51012, 32, 45208, 53440, 45236,
      45716, 32, 54364, 49884>>, rule_reference |-> <<51228, 51, 51109, 32, 49688, 54617,
      32, 48143, 32, 44284, 54617>>, usage_notes |-> <<49707, 51088, 32, 50526, 50640, 32,
      48537, 50668, 32, 49707, 51088, 51076, 51012, 32, 54364, 49884>> ],
    [ id |-> "number_01", character |-> <<49>>, braille_dots |-> <<1>>,
      category |-> BrailleCategory.NUMBER, name |-> <<49707, 51088, 32, 49>>,
      description |-> <<49707, 51088, 32, 51068>>, rule_reference |-> <<51228, 51, 51109>>,
      usage_notes |-> <<49688, 54364, 32, 46244, 50640, 32, 49324, 50857>>, examples |-> <<
      <<35, 49>> >> ],
    [ id |-> "number_02", character |-> <<50>>, braille_dots |-> <<1, 2>>,
      category |-> BrailleCategory.NUMBER, name |-> <<49707, 51088, 32, 50>>,
      description |-> <<49707, 51088, 32, 51060>>, rule_reference |-> <<51228, 51, 51109>>,
      usage_notes |-> <<49688, 54364, 32, 46244, 50640, 32, 49324, 50857>>, examples |-> <<
      <<35, 50>> >> ],
    [ id |-> "number_03", character |-> <<51>>, braille_dots |-> <<1, 4>>,
      category |-> BrailleCategory.NUMBER, name |-> <<49707, 51088, 32, 51>>,
      description |-> <<49707, 51088, 32, 49340>>, rule_reference |-> <<51228, 51, 51109>>,
      usage_notes |-> <<49688, 54364, 32, 46244, 50640, 32, 49324, 50857>>, examples |-> <<
      <<35, 51>> >> ],
    [ id |-> "number_04", character |-> <<52>>, braille_dots |-> <<1, 4, 5>>,
      category |-> BrailleCategory.NUMBER, name |-> <<49707, 51088, 32, 52>>,
      description |-> <<49707, 51088, 32, 49324>>, rule_reference |-> <<51228, 51, 51109>>,
      usage_notes |-> <<49688, 54364, 32, 46244, 50640, 32, 49324, 50857>>, examples |-> <<
      <<35, 52>> >> ],
    [ id |-> "number_05", character |-> <<53>>, braille_dots |-> <<1, 5>>,
      category |-> BrailleCategory.NUMBER, name |-> <<49707, 51088, 32, 53>>,
      description |-> <<49707, 51088, 32, 50724>>, rule_reference |-> <<51228, 51, 51109>>,
      usage_notes |-> <<49688, 54364, 32, 46244, 50640, 32, 49324, 50857>>, examples |-> <<
      <<35, 53>> >> ],
    [ id |-> "number_06", character |-> <<54>>, braille_dots |-> <<1, 2, 4>>,
      category |-> BrailleCategory.NUMBER, name |-> <<49707, 51088, 32, 54>>,
      description |-> <<49707, 51088, 32, 50977>>, rule_reference |-> <<51228, 51, 51109>>,
      usage_notes |-> <<49688, 54364, 32, 46244, 50640, 32, 49324, 50857>>, examples |-> <<
      <<35, 54>> >> ],
    [ id |-> "number_07", character |-> <<55>>, braille_dots |-> <<1, 2, 4, 5>>,
      category |-> BrailleCategory.NUMBER, name |-> <<49707, 51088, 32, 55>>,
      description |-> <<49707, 51088, 32, 52832>>, rule_reference |-> <<51228, 51, 51109>>,
      usage_notes |-> <<49688, 54364, 32, 46244, 50640, 32, 49324, 50857>>, examples |-> <<
      <<35, 55>> >> ],
    [ id |-> "number_08", character |-> <<56>>, braille_dots |-> <<1, 2, 5>>,
      category |-> BrailleCategory.NUMBER, name |-> <<49707, 51088, 32, 56>>,
      description |-> <<49707, 51088, 32, 54036>>, rule_reference |-> <<51228, 51, 51109>>,
      usage_notes |-> <<49688, 54364, 32, 46244, 50640, 32, 49324, 50857>>, examples |-> <<
      <<35, 56>> >> ],
    [ id |-> "number_09", character |-> <<57>>, braille_dots |-> <<2, 4>>,
      category |-> BrailleCategory.NUMBER, name |-> <<49707, 51088, 32, 57>>,
      description |-> <<49707, 51088, 32, 44396>>, rule_reference |-> <<51228, 51, 51109>>,
      usage_notes |-> <<49688, 54364, 32, 46244, 50640, 32, 49324, 50857>>, examples |-> <<
      <<35, 57>> >> ],
    [ id |-> "number_00", character |-> <<48>>, braille_dots |-> <<2, 4, 5>>,
      category |-> BrailleCategory.NUMBER, name |-> <<49707, 51088, 32, 48>>,
      description |-> <<49707, 51088, 32, 50689>>, rule_reference |-> <<51228, 51, 51109>>,
      usage_notes |-> <<49688, 54364, 32, 46244, 50640, 32, 49324, 50857>>, examples |-> <<
      <<35, 48>> >> ]
  >>

\* punctuation marks and the word space: 8 entries
PUNCTUATION ==
  <<
    [ id |-> "punct_01", character |-> <<46>>, braille_dots |-> <<2, 5, 6>>,
      category |-> BrailleCategory.PUNCTUATION, name |-> <<47560, 52840, 54364>>,
      description |-> <<47928, 51109, 51032, 32, 45149>>, rule_reference |-> <<51228, 50,
      51109, 32, 47928, 51109, 48512, 54840>>, examples |-> << <<50504, 45397, 46>> >> ],
    [ id |-> "punct_02", character |-> <<44>>, braille_dots |-> <<5>>,
      category |-> BrailleCategory.PUNCTUATION, name |-> <<49788, 54364>>,
      description |-> <<47928, 51109, 32, 45236, 32, 49788>>, rule_reference |-> <<51228,
      50, 51109, 32, 47928, 51109, 48512, 54840>>, examples |-> << <<44032, 44, 32, 45208,
      44, 32, 45796>> >> ],
    [ id |-> "punct_03", character |-> <<63>>, braille_dots |-> <<2, 3, 6>>,
      category |-> BrailleCategory.PUNCTUATION, name |-> <<47932, 51020, 54364>>,
      description |-> <<51032, 47928, 47928, 51032, 32, 45149>>, rule_reference |-> <<51228,
      50, 51109, 32, 47928, 51109, 48512, 54840>>, examples |-> << <<50780, 63>> >> ],
    [ id |-> "punct_04", character |-> <<33>>, braille_dots |-> <<2, 3, 5>>,
      category |-> BrailleCategory.PUNCTUATION, name |-> <<45712, 45196, 54364>>,
      description |-> <<44048, 53444, 47928, 51032, 32, 45149>>, rule_reference |-> <<51228,
      50, 51109, 32, 47928, 51109, 48512, 54840>>, examples |-> << <<50752, 33>> >> ],
    [ id |-> "punct_05", character |-> <<58>>, braille_dots |-> <<5, 2>>,
      category |-> BrailleCategory.PUNCTUATION, name |-> <<49933, 51216>>,
      description |-> <<49444, 47749, 51060, 45208, 32, 50676, 44144>>,
      rule_reference |-> <<51228, 50, 51109, 32, 47928, 51109, 48512, 54840>>,
      examples |-> << <<49884, 44036, 58, 32, 51, 49884>> >> ],
    [ id |-> "punct_06", character |-> <<59>>, braille_dots |-> <<5, 6>>,
      category |-> BrailleCategory.PUNCTUATION, name |-> <<49933, 48152, 51216>>,
      description |-> <<47928, 51109, 32, 44396, 48516>>, rule_reference |-> <<51228, 50,
      51109, 32, 47928, 51109, 48512, 54840>>, examples |-> << <<44032, 59, 32, 45208>> >> ],
    [ id |-> "punct_07", character |-> <<45>>, braille_dots |-> <<3, 6>>,
      category |-> BrailleCategory.PUNCTUATION, name |-> <<48537, 51076, 54364>>,
      description |-> <<45800, 50612, 32, 50672, 44208>>, rule_reference |-> <<51228, 50,
      51109, 32, 47928, 51109, 48512, 54840>>, examples |-> << <<49436, 50872, 45, 48512,
      49328>> >> ],
    [ id |-> "punct_08", character |-> <<32>>, braille_dots |-> <<>>,
      category |-> BrailleCategory.SPECIAL, name |-> <<46916, 50612, 50416, 44592>>,
      description |-> <<45800, 50612, 32, 49324, 51060, 32, 44277, 48177>>,
      rule_reference |-> <<51228, 49, 51109>>, usage_notes |-> <<54620, 32, 52856, 32,
      46916, 50880>> ]
  >>
\* The sum with the final U+3147 given the dots 2-3-5-6 and not those of the
\* final U+3141.
ALL_BRAILLE_DATA_seed_ieung_2356 ==
  LET sum == INITIAL_CONSONANTS \o FINAL_CONSONANTS \o VOWELS \o VOWEL_SEQUENCES
               \o NUMBERS \o PUNCTUATION
  IN  [ i \in 1..Len(sum) |->
          IF sum[i].id = "cons_final_08"
          THEN [ sum[i] EXCEPT !.braille_dots = <<2, 3, 5, 6>> ]
          ELSE sum[i] ]

\* The sum with the tensed initial consonants written as the tense sign, dot 6,
\* followed by the base consonant's cell.
ALL_BRAILLE_DATA_seed_tense_sign ==
  LET sum == INITIAL_CONSONANTS \o FINAL_CONSONANTS \o VOWELS \o VOWEL_SEQUENCES
               \o NUMBERS \o PUNCTUATION
      tensed == {"cons_initial_15", "cons_initial_16", "cons_initial_17",
                 "cons_initial_18", "cons_initial_19"}
      half(dots) == SubSeq(dots, 1, Len(dots) \div 2)
  IN  [ i \in 1..Len(sum) |->
          IF sum[i].id \in tensed
          THEN [ sum[i] EXCEPT !.braille_dots = <<6>> \o half(sum[i].braille_dots) ]
          ELSE sum[i] ]

\* The sum with an entry at its end that was left without a name.
ALL_BRAILLE_DATA_seed_nameless ==
  INITIAL_CONSONANTS \o FINAL_CONSONANTS \o VOWELS \o VOWEL_SEQUENCES \o NUMBERS
    \o PUNCTUATION
    \o << [ id |-> "punct_09", character |-> <<34>>, braille_dots |-> <<2, 3, 6>>,
            category |-> BrailleCategory.PUNCTUATION ] >>

\* The sum with two groups in the wrong order.
ALL_BRAILLE_DATA_seed_reordered ==
  INITIAL_CONSONANTS \o FINAL_CONSONANTS \o VOWELS \o NUMBERS \o VOWEL_SEQUENCES
    \o PUNCTUATION

\* The sum with one group taken twice and another left out.
ALL_BRAILLE_DATA_seed_twice ==
  INITIAL_CONSONANTS \o FINAL_CONSONANTS \o VOWELS \o VOWELS \o NUMBERS
    \o PUNCTUATION

\* ALL_BRAILLE_DATA as the module builds it when it is imported.
ALL_BRAILLE_DATA_seed ==
  INITIAL_CONSONANTS \o FINAL_CONSONANTS \o VOWELS \o VOWEL_SEQUENCES \o NUMBERS
    \o PUNCTUATION

(***************************************************************************)
(* State                                                                    *)
(***************************************************************************)
VARIABLES
  ALL_BRAILLE_DATA,  \* the module-level list of entry dicts
  pc,                \* "idle": waiting for a request; "done": a response is ready
  request,           \* the request being answered
  response,          \* its response: [status, body]
  calls,             \* the table operations the handler ran, in order, with results
  inflight,          \* per caller, the same four for its request when the server
                     \* has several in hand: [pc, request, response, calls]
  path,              \* the path of the request being answered, below the router's
                     \* prefix, as its segments, when the request came by its path
  user_vocabulary,   \* Firestore collection 'user_vocabulary': the documents in the
                     \* order they were added, a document's id being its place; a
                     \* deleted document leaves None, its id is not given again
  vocab_workers,     \* per server process, the vocabulary request it is handling
  users,             \* Firestore collection 'users': the documents in the order they
                     \* were added, a document's id being its place
  auth,              \* the last request to the user controller and its outcome
  quizzes,           \* Firestore collection 'quizzes', a document's id its place
  quiz_results,      \* Firestore collection 'quiz_results', in the order added
  submitted          \* the submission being answered and its outcome

\* What the Braille router works on, and what the controllers that use Firestore
\* work on.
braille_vars == << ALL_BRAILLE_DATA, pc, request, response, calls, inflight, path >>

vocab_vars == << user_vocabulary, vocab_workers >>

user_vars == << users, auth >>

quiz_vars == << quizzes, quiz_results, submitted >>

firestore_vars == << vocab_vars, user_vars, quiz_vars >>

vars == << braille_vars, firestore_vars >>

(***************************************************************************)
(* Python str operations                                                    *)
(***************************************************************************)
\* lower_char with the sign slip c - 32: "A" becomes "!" and not "a".
lower_char_minus(c) ==
  IF c \in 65..90 \/ (c \in 192..222 /\ c # 215) THEN c - 32 ELSE c

\* str.lower() of one code point: A-Z and the Latin-1 capitals move by 32,
\* Hangul, digits, spaces and punctuation have no case.
lower_char(c) ==
  IF c \in 65..90 \/ (c \in 192..222 /\ c # 215) THEN c + 32 ELSE c

lower(s) == [ i \in 1..Len(s) |-> lower_char(s[i]) ]

\* str.isspace() of one code point.
isspace(c) ==
  c \in (9..13) \cup (28..32) \cup {133, 160, 5760} \cup (8192..8202)
          \cup {8232, 8233, 8239, 8287, 12288}

RECURSIVE lstrip(_)
lstrip(s) == IF s # <<>> /\ isspace(Head(s)) THEN lstrip(Tail(s)) ELSE s

RECURSIVE rstrip(_)
rstrip(s) ==
  IF s # <<>> /\ isspace(s[Len(s)]) THEN rstrip(SubSeq(s, 1, Len(s) - 1)) ELSE s

strip(s) == rstrip(lstrip(s))

\* needle in hay
contains(needle, hay) ==
  \E start \in 0..(Len(hay) - Len(needle)) :
     \A k \in 1..Len(needle) : hay[start + k] = needle[k]

(***************************************************************************)
(* data/braille_library.py: the table operations                            *)
(***************************************************************************)
\* Each operation that builds entries comes with the condition under which it
\* raises (KeyError from char[...], ValidationError from BrailleCharacter) and
\* returns nothing; its value below is what it returns when it does not raise.
get_all_braille_characters_raises ==
  \E i \in 1..Len(ALL_BRAILLE_DATA) : ~validates(ALL_BRAILLE_DATA[i])

get_all_braille_characters ==
  [ i \in 1..Len(ALL_BRAILLE_DATA) |-> BrailleCharacter(ALL_BRAILLE_DATA[i]) ]

get_braille_by_category_raises(category) ==
  \E i \in 1..Len(ALL_BRAILLE_DATA) :
     LET char == ALL_BRAILLE_DATA[i]
     IN  \/ "category" \notin DOMAIN char
         \/ char.category = category /\ ~validates(char)

search_braille_raises(query) ==
  \E i \in 1..Len(ALL_BRAILLE_DATA) :
     LET char == ALL_BRAILLE_DATA[i]
         query_lower == lower(query)
     IN  \/ "character" \notin DOMAIN char
         \/ IF contains(query_lower, lower(char.character))
            THEN ~validates(char)
            ELSE \/ "name" \notin DOMAIN char
                 \/ contains(query_lower, lower(char.name)) /\ ~validates(char)

\* get_braille_by_category that counts the number sign among the numbers.
get_braille_by_category_with_prefix(category) ==
  LET keep(char) ==
        \/ char.category = category
        \/ category = BrailleCategory.NUMBER /\ char.category = BrailleCategory.PREFIX
      filtered == SelectSeq(ALL_BRAILLE_DATA, keep)
  IN  [ i \in 1..Len(filtered) |-> BrailleCharacter(filtered[i]) ]

\* get_braille_by_category with the slice bug filtered[:-1]: the last match is lost.
get_braille_by_category_slice(category) ==
  LET keep(char) == char.category = category
      filtered == SelectSeq(ALL_BRAILLE_DATA, keep)
  IN  [ i \in 1..(Len(filtered) - 1) |-> BrailleCharacter(filtered[i]) ]

get_braille_by_category(category) ==
  LET keep(char) == char.category = category
      filtered == SelectSeq(ALL_BRAILLE_DATA, keep)
  IN  [ i \in 1..Len(filtered) |-> BrailleCharacter(filtered[i]) ]

\* search_braille that compares with == where the code tests for a substring.
search_braille_exact(query) ==
  LET query_lower == lower(query)
      keep(char) == \/ query_lower = lower(char.character)
                    \/ query_lower = lower(char.name)
      filtered == SelectSeq(ALL_BRAILLE_DATA, keep)
  IN  [ i \in 1..Len(filtered) |-> BrailleCharacter(filtered[i]) ]

\* search_braille that also looks into the description of an entry.
search_braille_description(query) ==
  LET query_lower == lower(query)
      keep(char) == \/ contains(query_lower, lower(char.character))
                    \/ contains(query_lower, lower(char.name))
                    \/ /\ "description" \in DOMAIN char
                       /\ contains(query_lower, lower(char.description))
      filtered == SelectSeq(ALL_BRAILLE_DATA, keep)
  IN  [ i \in 1..Len(filtered) |-> BrailleCharacter(filtered[i]) ]

search_braille(query) ==
  LET query_lower == lower(query)
      keep(char) == \/ contains(query_lower, lower(char.character))
                    \/ contains(query_lower, lower(char.name))
      filtered == SelectSeq(ALL_BRAILLE_DATA, keep)
  IN  [ i \in 1..Len(filtered) |-> BrailleCharacter(filtered[i]) ]

\* get_available_categories that lists category.name where the code lists
\* category.value.
get_available_categories_names == BrailleCategoryMembers

get_available_categories ==
  [ i \in 1..Len(BrailleCategoryMembers) |-> BrailleCategory[BrailleCategoryMembers[i]] ]

(***************************************************************************)
(* Requests and responses                                                   *)
(***************************************************************************)
\* One run of a table operation: its name, its argument and what it returned.
Call(op, category, query, result) ==
  [ op |-> op, category |-> category, query |-> query, result |-> result ]

Request(handler, category, search, character_id) ==
  [ handler |-> handler, category |-> category, search |-> search,
    character_id |-> character_id ]

NoRequest == Request("", None, None, None)

Ok(body) == [ status |-> 200, body |-> Some(body) ]

HTTPException(status_code) == [ status |-> status_code, body |-> None ]

NoResponse == [ status |-> 0, body |-> None ]

\* What a handler does with a request: the response it returns or raises, and
\* the table operations it ran on the way.
Run(resp, ops) == [ response |-> resp, calls |-> ops ]

\* The request is refused before the handler is entered.
RequestValidationError == Run(HTTPException(422), <<>>)

\* The search texts of the requests: every text of at most MaxQueryLen code
\* points over space, A, a, U+314F (the vowel a) and U+AE30 U+C5ED (gi-yeok, the
\* name of the first consonant).
QueryAlphabet == {32, 65, 97, 12623, 44592, 50669}

Queries == UNION { [1..n -> QueryAlphabet] : n \in 0..MaxQueryLen }

\* A path parameter is one segment of the path, which is never empty.
PathTexts == Queries \ {<<>>}

\* The category texts of the requests: the eight identifiers and two others.
RawCategories == BrailleCategoryValues \cup {"", "NUMBER"}

\* The category segment of a path, which is never empty.
PathCategories == RawCategories \ {""}

\* The ids of the requests: every id of the table and three others.  The path
\* /library/categories belongs to the category list, which is declared before
\* the id lookup, so "categories" is not an id the lookup is given.
CharacterIds ==
  { ALL_BRAILLE_DATA_seed[i].id : i \in 1..Len(ALL_BRAILLE_DATA_seed) }
    \cup {"cons_initial_00", "vowel_22", "CONS_INITIAL_01"}

Clients == 1..NumClients

\* A caller with no request in hand.
Idle == [ pc |-> "idle", request |-> NoRequest, response |-> NoResponse, calls |-> <<>> ]

\* The server processes that handle vocabulary requests.  A handler calls the
\* controller, which blocks on Firestore, so a process handles one request at
\* a time; two processes share the one Firestore.
VocabWorkers == {"worker_1", "worker_2"}

\* A process with no vocabulary request in hand.
VocabIdle ==
  [ pc |-> "idle", op |-> "", user |-> "", content |-> <<>>, vocab_type |-> "",
    vocab_id |-> 0, doc |-> None, status |-> 0 ]

\* No request to the user controller yet.
NoAuth ==
  [ op |-> "", email |-> "", oauth_id |-> "", access_token |-> "", status |-> 0,
    token |-> None, is_new_user |-> FALSE ]

\* No submission in hand.
NoSubmission ==
  [ user |-> "", quiz_id |-> 0, answers |-> <<>>, status |-> 0, result |-> None ]

Init ==
  /\ ALL_BRAILLE_DATA = ALL_BRAILLE_DATA_seed
  /\ pc = "idle"
  /\ request = NoRequest
  /\ response = NoResponse
  /\ calls = <<>>
  /\ inflight = [ c \in Clients |-> Idle ]
  /\ path = <<>>
  /\ user_vocabulary = <<>>
  /\ vocab_workers = [ p \in VocabWorkers |-> VocabIdle ]
  /\ users = <<>>
  /\ auth = NoAuth
  /\ quizzes = <<>>
  /\ quiz_results = <<>>
  /\ submitted = NoSubmission

(***************************************************************************)
(* routers/braille_library.py: the handlers.  A handler runs each table     *)
(* operation once and keeps what it returned.                               *)
(***************************************************************************)
\* A parameter of type BrailleCategory that takes any text.
ValidCategory_any_str(value) == TRUE

\* A parameter of type BrailleCategory takes the values of the enum.
ValidCategory(value) == value \in BrailleCategoryValues

\* Optional[BrailleCategory] = Query(None): absent, or a value of the enum.
ValidCategoryParam(category) ==
  category = None \/ ValidCategory(category[1])

\* Optional[str] = Query(None, min_length=1)
ValidSearchParam(search) == search = None \/ Len(search[1]) >= 1

\* except Exception: a handler turns whatever a table operation raises into 500.
InternalServerError == Run(HTTPException(500), <<>>)

\* The operation the list handler picks raises.
library_lookup_raises(category, search) ==
  IF Truthy(search)
  THEN search_braille_raises(search[1])
  ELSE IF TruthyCategory(category)
  THEN get_braille_by_category_raises(category[1])
  ELSE get_all_braille_characters_raises

\* The table operation the list handler picks for its filters.
library_lookup(category, search) ==
  IF Truthy(search)
  THEN Call("search_braille", None, search, search_braille(search[1]))
  ELSE IF TruthyCategory(category)
  THEN Call("get_braille_by_category", category, None,
            get_braille_by_category(category[1]))
  ELSE Call("get_all_braille_characters", None, None, get_all_braille_characters)

\* library_filter with the category forgotten once a search text is given.
library_filter_search_only(category, search, found) == found

\* The category filter the list handler applies to what a search found.
library_filter(category, search, found) ==
  LET inCategory(char) == char.category = category[1]
  IN  IF Truthy(search) /\ TruthyCategory(category)
      THEN SelectSeq(found, inCategory)
      ELSE found

\* The list handler counting what the first operation returned.
get_braille_library_first_count(category, search) ==
  IF library_lookup_raises(category, search)
  THEN InternalServerError
  ELSE LET first == library_lookup(category, search)
           characters == library_filter(category, search, first.result)
           categories ==
             Call("get_available_categories", None, None, get_available_categories)
       IN  Run(Ok(BrailleLibraryResponse(Len(first.result), categories.result,
                                         characters)),
               << first, categories >>)

get_braille_library(category, search) ==
  IF library_lookup_raises(category, search)
  THEN InternalServerError
  ELSE LET first == library_lookup(category, search)
           characters == library_filter(category, search, first.result)
           categories ==
             Call("get_available_categories", None, None, get_available_categories)
       IN  Run(Ok(BrailleLibraryResponse(Len(characters), categories.result,
                                         characters)),
               << first, categories >>)

get_categories ==
  LET categories ==
        Call("get_available_categories", None, None, get_available_categories)
  IN  Run(Ok(categories.result), << categories >>)

\* get_braille_character that answers with the entry after the one it found
\* (the last entry answers with itself).
get_braille_character_off_by_one(character_id) ==
  LET all_characters ==
        Call("get_all_braille_characters", None, None, get_all_braille_characters)
      hits == { i \in 1..Len(all_characters.result) :
                  all_characters.result[i].id = character_id }
      found == CHOOSE i \in hits : \A j \in hits : i <= j
      character ==
        all_characters.result[IF found < Len(all_characters.result)
                              THEN found + 1 ELSE found]
  IN  Run(IF hits = {} THEN HTTPException(404) ELSE Ok(character),
          << all_characters >>)

\* get_braille_character whose next(...) falls back to the first entry, not None.
get_braille_character_first(character_id) ==
  LET all_characters ==
        Call("get_all_braille_characters", None, None, get_all_braille_characters)
      hits == { i \in 1..Len(all_characters.result) :
                  all_characters.result[i].id = character_id }
      character ==
        IF hits = {}
        THEN all_characters.result[1]
        ELSE all_characters.result[CHOOSE i \in hits : \A j \in hits : i <= j]
  IN  Run(Ok(character), << all_characters >>)

get_braille_character(character_id) ==
  IF get_all_braille_characters_raises
  THEN InternalServerError
  ELSE LET all_characters ==
             Call("get_all_braille_characters", None, None, get_all_braille_characters)
           hits == { i \in 1..Len(all_characters.result) :
                       all_characters.result[i].id = character_id }
           character ==
             all_characters.result[CHOOSE i \in hits : \A j \in hits : i <= j]
       IN  Run(IF hits = {} THEN HTTPException(404) ELSE Ok(character),
               << all_characters >>)

\* The category handler counting the whole table.
get_braille_by_category_name_table_count(category_name) ==
  LET characters ==
        Call("get_braille_by_category", Some(category_name), None,
             get_braille_by_category(category_name))
      categories ==
        Call("get_available_categories", None, None, get_available_categories)
  IN  Run(Ok(BrailleLibraryResponse(Len(ALL_BRAILLE_DATA), categories.result,
                                    characters.result)),
          << characters, categories >>)

get_braille_by_category_name(category_name) ==
  IF get_braille_by_category_raises(category_name)
  THEN InternalServerError
  ELSE LET characters ==
             Call("get_braille_by_category", Some(category_name), None,
                  get_braille_by_category(category_name))
           categories ==
             Call("get_available_categories", None, None, get_available_categories)
       IN  Run(Ok(BrailleLibraryResponse(Len(characters.result), categories.result,
                                         characters.result)),
               << characters, categories >>)

search_braille_characters(query) ==
  IF query = <<>> \/ Len(strip(query)) = 0
  THEN Run(HTTPException(400), <<>>)
  ELSE IF search_braille_raises(strip(query))
  THEN InternalServerError
  ELSE LET characters ==
             Call("search_braille", None, Some(strip(query)),
                  search_braille(strip(query)))
           categories ==
             Call("get_available_categories", None, None, get_available_categories)
       IN  Run(Ok(BrailleLibraryResponse(Len(characters.result), categories.result,
                                         characters.result)),
               << characters, categories >>)

\* The two fixed texts of the conversion stub.
ConvertNotice ==
  << 51060, 32, 44592, 45733, 51008, 32, 44592, 48376, 32, 48120, 47532, 48372, 44592,
  51077, 45768, 45796, 46, 32, 50756, 51204, 54620, 32, 51216, 51088, 32, 48320, 54872,
  51008, 32, 48324, 46020, 32, 46972, 51060, 48652, 47084, 47532, 44032, 32, 54596,
  50836, 54633, 45768, 45796, 46 >>

ConvertSuggestion ==
  << 51216, 51088, 32, 46020, 49436, 44288, 32, 65, 80, 73, 47484, 32, 49324, 50857,
  54616, 50668, 32, 44060, 48324, 32, 47928, 51088, 51032, 32, 51216, 51088, 32, 54364,
  54788, 51012, 32, 54869, 51064, 54616, 49464, 50836, 46 >>

\* convert_text_to_braille that does convert: it looks the text up in the table
\* and returns the dots of the entries found.
convert_text_to_braille_lookup(text) ==
  IF text = <<>> \/ Len(strip(text)) = 0
  THEN Run(HTTPException(400), <<>>)
  ELSE LET found == Call("search_braille", None, Some(text), search_braille(text))
       IN  Run(Ok([ original_text    |-> text,
                    braille_dots     |-> [ k \in 1..Len(found.result) |->
                                             found.result[k].braille_dots ],
                    notice           |-> ConvertNotice,
                    suggestion       |-> ConvertSuggestion,
                    library_endpoint |-> "/api/v1/braille/library" ]),
               << found >>)

convert_text_to_braille(text) ==
  IF text = <<>> \/ Len(strip(text)) = 0
  THEN Run(HTTPException(400), <<>>)
  ELSE Run(Ok([ original_text    |-> text,
                notice           |-> ConvertNotice,
                suggestion       |-> ConvertSuggestion,
                library_endpoint |-> "/api/v1/braille/library" ]),
           <<>>)

(***************************************************************************)
(* The routes of the router.  A request is taken while the server waits for *)
(* one; its parameters are validated against the handler's signature, the   *)
(* handler runs to its end, and the response is ready to be sent.           *)
(***************************************************************************)
\* Serve for a handler that filters the shared list in place
\* (ALL_BRAILLE_DATA[:] = filtered) where the code builds a new list.
Serve_in_place(req, run) ==
  /\ request' = req
  /\ response' = run.response
  /\ calls' = run.calls
  /\ pc' = "done"
  /\ ALL_BRAILLE_DATA' =
       IF run.calls # <<>>
          /\ run.calls[1].op \in {"search_braille", "get_braille_by_category"}
       THEN LET found == run.calls[1].result
                kept(char) == \E k \in 1..Len(found) : found[k].id = char.id
            IN  SelectSeq(ALL_BRAILLE_DATA, kept)
       ELSE ALL_BRAILLE_DATA
  /\ UNCHANGED << inflight, path, firestore_vars >>

\* `run` is evaluated once, by the routes' \E over a one-element set.
Serve(req, run) ==
  /\ request' = req
  /\ response' = run.response
  /\ calls' = run.calls
  /\ pc' = "done"
  /\ UNCHANGED << ALL_BRAILLE_DATA, inflight, path, firestore_vars >>

\* GET /library?category=&search=
library ==
  /\ pc = "idle"
  /\ \E category \in {None} \cup { Some(c) : c \in RawCategories },
        search \in {None} \cup { Some(q) : q \in Queries } :
       \E run \in { IF ValidCategoryParam(category) /\ ValidSearchParam(search)
                    THEN get_braille_library(category, search)
                    ELSE RequestValidationError } :
          Serve(Request("get_braille_library", category, search, None), run)

\* GET /library/categories
library_categories ==
  /\ pc = "idle"
  /\ \E run \in { get_categories } :
       Serve(Request("get_categories", None, None, None), run)

\* GET /library/{character_id}
library_character_id ==
  /\ pc = "idle"
  /\ \E character_id \in CharacterIds :
       \E run \in { get_braille_character(character_id) } :
          Serve(Request("get_braille_character", None, None, Some(character_id)), run)

\* GET /library/category/{category_name}
library_category_category_name ==
  /\ pc = "idle"
  /\ \E category_name \in PathCategories :
       \E run \in { IF ValidCategory(category_name)
                    THEN get_braille_by_category_name(category_name)
                    ELSE RequestValidationError } :
          Serve(Request("get_braille_by_category_name", Some(category_name), None, None),
                run)

\* GET /library/search/{query}
library_search_query ==
  /\ pc = "idle"
  /\ \E query \in PathTexts :
       \E run \in { search_braille_characters(query) } :
          Serve(Request("search_braille_characters", None, Some(query), None), run)

\* GET /convert/{text}
convert_text ==
  /\ pc = "idle"
  /\ \E text \in PathTexts :
       \E run \in { convert_text_to_braille(text) } :
          Serve(Request("convert_text_to_braille", None, Some(text), None), run)

\* The response is sent and the server waits for the next request.
Reply ==
  /\ pc = "done"
  /\ pc' = "idle"
  /\ request' = NoRequest
  /\ response' = NoResponse
  /\ calls' = <<>>
  /\ path' = <<>>
  /\ UNCHANGED << ALL_BRAILLE_DATA, inflight, firestore_vars >>

Next ==
  \/ library
  \/ library_categories
  \/ library_character_id
  \/ library_category_category_name
  \/ library_search_query
  \/ convert_text
  \/ Reply

Spec == Init /\ [][Next]_vars

(***************************************************************************)
(* Several requests in hand at once.  The handlers are `async def` with no  *)
(* await in their bodies, so a body runs on the event loop from its first   *)
(* line to its return with no other body in between; what interleaves is    *)
(* the arrival of the requests, the bodies, and the sending of responses.   *)
(* Nothing takes a lock.                                                    *)
(***************************************************************************)
\* The requests the callers send: the list endpoint with no filter, with both
\* filters and with a category that is not of the enum, the category path, the
\* search path, and the id lookup for an id of the table and for another.
ConcurrentRequests ==
  { Request("get_braille_library", None, None, None),
    Request("get_braille_library", Some(BrailleCategory.VOWEL), Some(<<12623>>), None),
    Request("get_braille_library", Some("NUMBER"), None, None),
    Request("get_braille_by_category_name", Some(BrailleCategory.NUMBER), None, None),
    Request("search_braille_characters", None, Some(<<44592>>), None),
    Request("get_braille_character", None, None, Some("cons_initial_01")),
    Request("get_braille_character", None, None, Some("vowel_22")) }

\* The router: the handler of the request's path, after the validation of its
\* parameters.
route(req) ==
  CASE req.handler = "get_braille_library" ->
         IF ValidCategoryParam(req.category) /\ ValidSearchParam(req.search)
         THEN get_braille_library(req.category, req.search)
         ELSE RequestValidationError
    [] req.handler = "get_categories" -> get_categories
    [] req.handler = "get_braille_character" ->
         get_braille_character(req.character_id[1])
    [] req.handler = "get_braille_by_category_name" ->
         IF ValidCategory(req.category[1])
         THEN get_braille_by_category_name(req.category[1])
         ELSE RequestValidationError
    [] req.handler = "search_braille_characters" ->
         search_braille_characters(req.search[1])
    [] req.handler = "convert_text_to_braille" ->
         convert_text_to_braille(req.search[1])

\* A request of caller c arrives.
Receive(c) ==
  /\ inflight[c].pc = "idle"
  /\ \E req \in ConcurrentRequests :
       inflight' = [ inflight EXCEPT ![c] =
                       [ pc |-> "received", request |-> req,
                         response |-> NoResponse, calls |-> <<>> ] ]
  /\ UNCHANGED << ALL_BRAILLE_DATA, pc, request, response, calls, path,
                  firestore_vars >>

\* Handle for handlers that filter the shared list in place
\* (ALL_BRAILLE_DATA[:] = filtered) where the code builds a new list.
Handle_in_place(c) ==
  /\ inflight[c].pc = "received"
  /\ \E run \in { route(inflight[c].request) } :
       /\ inflight' = [ inflight EXCEPT ![c] =
                          [ pc |-> "done", request |-> inflight[c].request,
                            response |-> run.response, calls |-> run.calls ] ]
       /\ ALL_BRAILLE_DATA' =
            IF run.calls # <<>>
               /\ run.calls[1].op \in {"search_braille", "get_braille_by_category"}
            THEN LET found == run.calls[1].result
                     kept(char) == \E k \in 1..Len(found) : found[k].id = char.id
                 IN  SelectSeq(ALL_BRAILLE_DATA, kept)
            ELSE ALL_BRAILLE_DATA
  /\ UNCHANGED << pc, request, response, calls, path, firestore_vars >>

\* The body of the handler of caller c's request runs, reading the table as it
\* is now.
Handle(c) ==
  /\ inflight[c].pc = "received"
  /\ \E run \in { route(inflight[c].request) } :
       inflight' = [ inflight EXCEPT ![c] =
                       [ pc |-> "done", request |-> inflight[c].request,
                         response |-> run.response, calls |-> run.calls ] ]
  /\ UNCHANGED << ALL_BRAILLE_DATA, pc, request, response, calls, path,
                  firestore_vars >>

\* The response of caller c's request is sent.
Send(c) ==
  /\ inflight[c].pc = "done"
  /\ inflight' = [ inflight EXCEPT ![c] = Idle ]
  /\ UNCHANGED << ALL_BRAILLE_DATA, pc, request, response, calls, path,
                  firestore_vars >>

NextConcurrent == \E c \in Clients : Receive(c) \/ Handle(c) \/ Send(c)

SpecConcurrent == Init /\ [][NextConcurrent]_vars

(***************************************************************************)
(* Requests by their paths.  The routes are tried in the order the router   *)
(* declares them and the first whose path matches answers; a parameter in   *)
(* braces matches one whole segment.                                        *)
(***************************************************************************)
\* The segments of the paths of the requests.
PathSegments ==
  {"library", "categories", "category", "search", "convert", "cons_initial_01",
   "vowel", "!"}

\* The paths of the requests: one to MaxPathLen segments.
Paths == UNION { [1..n -> PathSegments] : n \in 1..MaxPathLen }

\* A segment as the text a str parameter receives: its code points.
text_of(segment) ==
  CASE segment = "library" -> <<108, 105, 98, 114, 97, 114, 121>>
    [] segment = "categories" -> <<99, 97, 116, 101, 103, 111, 114, 105, 101, 115>>
    [] segment = "category" -> <<99, 97, 116, 101, 103, 111, 114, 121>>
    [] segment = "search" -> <<115, 101, 97, 114, 99, 104>>
    [] segment = "convert" -> <<99, 111, 110, 118, 101, 114, 116>>
    [] segment = "cons_initial_01" ->
         <<99, 111, 110, 115, 95, 105, 110, 105, 116, 105, 97, 108, 95, 48, 49>>
    [] segment = "vowel" -> <<118, 111, 119, 101, 108>>
    [] segment = "!" -> <<33>>

\* The routes with the id lookup declared before the category list.
routes_id_lookup_first ==
  << [ path |-> <<"library">>, endpoint |-> "get_braille_library" ],
     [ path |-> <<"library", "{character_id}">>, endpoint |-> "get_braille_character" ],
     [ path |-> <<"library", "categories">>, endpoint |-> "get_categories" ],
     [ path |-> <<"library", "category", "{category_name}">>,
       endpoint |-> "get_braille_by_category_name" ],
     [ path |-> <<"library", "search", "{query}">>,
       endpoint |-> "search_braille_characters" ],
     [ path |-> <<"convert", "{text}">>, endpoint |-> "convert_text_to_braille" ] >>

\* The @router.get declarations, in the order of the file.
routes ==
  << [ path |-> <<"library">>, endpoint |-> "get_braille_library" ],
     [ path |-> <<"library", "categories">>, endpoint |-> "get_categories" ],
     [ path |-> <<"library", "{character_id}">>, endpoint |-> "get_braille_character" ],
     [ path |-> <<"library", "category", "{category_name}">>,
       endpoint |-> "get_braille_by_category_name" ],
     [ path |-> <<"library", "search", "{query}">>,
       endpoint |-> "search_braille_characters" ],
     [ path |-> <<"convert", "{text}">>, endpoint |-> "convert_text_to_braille" ] >>

\* A segment of a route's path that is a parameter.
is_param(segment) ==
  segment \in {"{character_id}", "{category_name}", "{query}", "{text}"}

\* The path of a request matches the path of a route: segment by segment, a
\* parameter taking any one segment.
matches(route_path, request_path) ==
  /\ Len(route_path) = Len(request_path)
  /\ \A i \in 1..Len(route_path) :
        is_param(route_path[i]) \/ route_path[i] = request_path[i]

\* The place in routes of the first route that matches, 0 when none does.
match_route(request_path) ==
  LET matching == { i \in 1..Len(routes) : matches(routes[i].path, request_path) }
  IN  IF matching = {} THEN 0 ELSE CHOOSE i \in matching : \A j \in matching : i <= j

\* The request that a path makes of the route that answers it: the parameter,
\* when the route has one, is the last segment.
request_of(endpoint, request_path) ==
  LET segment == request_path[Len(request_path)]
  IN  CASE endpoint = "get_braille_library" -> Request(endpoint, None, None, None)
        [] endpoint = "get_categories" -> Request(endpoint, None, None, None)
        [] endpoint = "get_braille_character" ->
             Request(endpoint, None, None, Some(segment))
        [] endpoint = "get_braille_by_category_name" ->
             Request(endpoint, Some(segment), None, None)
        [] endpoint = "search_braille_characters" ->
             Request(endpoint, None, Some(text_of(segment)), None)
        [] endpoint = "convert_text_to_braille" ->
             Request(endpoint, None, Some(text_of(segment)), None)

\* GET prefix/path: the first matching route answers, and no route is 404.
get ==
  /\ pc = "idle"
  /\ \E request_path \in Paths :
       \E found \in { match_route(request_path) } :
          /\ path' = request_path
          /\ pc' = "done"
          /\ IF found = 0
             THEN /\ request' = NoRequest
                  /\ response' = HTTPException(404)
                  /\ calls' = <<>>
             ELSE \E req \in { request_of(routes[found].endpoint, request_path) } :
                     \E run \in { route(req) } :
                        /\ request' = req
                        /\ response' = run.response
                        /\ calls' = run.calls
  /\ UNCHANGED << ALL_BRAILLE_DATA, inflight, firestore_vars >>

NextRouted == get \/ Reply

SpecRouted == Init /\ [][NextRouted]_vars

(***************************************************************************)
(* controllers/vocab_controller.py.  Each Firestore call (get, add, delete) *)
(* is one step; between the calls of one request another process may make  *)
(* its own.  The user of a request is the one get_current_user found for    *)
(* its token.  Firestore itself is taken not to fail.                       *)
(***************************************************************************)
\* user.email of the requests.
VocabUsers == {"a@example.com", "b@example.com"}

\* vocab_item.content of the requests: the one syllable U+AC00.
VocabContents == { <<44032>> }

\* models/vocab_models.py VocabType
VocabType == {"character", "word"}

\* The ids of the delete requests: those the collection may ever hold.
VocabIds == 1..MaxVocabDocs

\* vocab_ref.document(vocab_id).get(): the document, None when doc.exists is
\* false.
vocab_document(vocab_id) ==
  IF vocab_id \in 1..Len(user_vocabulary) THEN user_vocabulary[vocab_id] ELSE None

\* The three where() of create_vocabulary_item: the ids of the user's documents
\* with this content and type.
existing_query(user, content, vocab_type) ==
  { i \in 1..Len(user_vocabulary) :
      /\ user_vocabulary[i] # None
      /\ user_vocabulary[i][1].user_email = user
      /\ user_vocabulary[i][1].content = content
      /\ user_vocabulary[i][1].vocab_type = vocab_type }

\* create_vocabulary_item up to `if existing_docs:`: the query, and 400 when it
\* found something.
create_vocabulary_item_query(p) ==
  /\ vocab_workers[p].pc = "idle"
  /\ \E user \in VocabUsers, content \in VocabContents, vocab_type \in VocabType :
       LET existing_docs == existing_query(user, content, vocab_type)
           taken == [ VocabIdle EXCEPT !.op = "create_vocabulary_item", !.user = user,
                                       !.content = content, !.vocab_type = vocab_type ]
       IN  vocab_workers' =
             [ vocab_workers EXCEPT ![p] =
                 IF existing_docs # {}
                 THEN [ taken EXCEPT !.pc = "done", !.status = 400 ]
                 ELSE [ taken EXCEPT !.pc = "add" ] ]
  /\ UNCHANGED << braille_vars, user_vocabulary, user_vars, quiz_vars >>

\* create_vocabulary_item from vocab_ref.add(vocab_data) on: the document is
\* added under a new id and returned.
create_vocabulary_item_add(p) ==
  /\ vocab_workers[p].pc = "add"
  /\ Len(user_vocabulary) < MaxVocabDocs
  /\ LET vocab_data ==
           [ user_email       |-> vocab_workers[p].user,
             content          |-> vocab_workers[p].content,
             vocab_type       |-> vocab_workers[p].vocab_type,
             difficulty_level |-> "beginner" ]
     IN  /\ user_vocabulary' = Append(user_vocabulary, Some(vocab_data))
         /\ vocab_workers' =
              [ vocab_workers EXCEPT ![p].pc = "done", ![p].status = 200,
                                     ![p].vocab_id = Len(user_vocabulary) + 1,
                                     ![p].doc = Some(vocab_data) ]
  /\ UNCHANGED << braille_vars, user_vars, quiz_vars >>

\* delete_vocabulary_item up to doc = vocab_ref.document(vocab_id).get()
delete_vocabulary_item_get(p) ==
  /\ vocab_workers[p].pc = "idle"
  /\ \E user \in VocabUsers, vocab_id \in VocabIds :
       vocab_workers' =
         [ vocab_workers EXCEPT ![p] =
             [ VocabIdle EXCEPT !.pc = "got", !.op = "delete_vocabulary_item",
                                !.user = user, !.vocab_id = vocab_id,
                                !.doc = vocab_document(vocab_id) ] ]
  /\ UNCHANGED << braille_vars, user_vocabulary, user_vars, quiz_vars >>

\* delete_vocabulary_item that deletes without asking whose the document is.
delete_vocabulary_item_delete_any_owner(p) ==
  /\ vocab_workers[p].pc = "got"
  /\ LET doc == vocab_workers[p].doc
         vocab_id == vocab_workers[p].vocab_id
     IN  IF doc = None
         THEN /\ vocab_workers' = [ vocab_workers EXCEPT ![p].pc = "done",
                                                         ![p].status = 404 ]
              /\ UNCHANGED user_vocabulary
         ELSE /\ user_vocabulary' = [ user_vocabulary EXCEPT ![vocab_id] = None ]
              /\ vocab_workers' = [ vocab_workers EXCEPT ![p].pc = "done",
                                                         ![p].status = 200 ]
  /\ UNCHANGED << braille_vars, user_vars, quiz_vars >>

\* delete_vocabulary_item from `if not doc.exists:` on: 404, 403, or the
\* document is deleted (deleting one that is gone already changes nothing).
delete_vocabulary_item_delete(p) ==
  /\ vocab_workers[p].pc = "got"
  /\ LET doc == vocab_workers[p].doc
         vocab_id == vocab_workers[p].vocab_id
     IN  IF doc = None
         THEN /\ vocab_workers' = [ vocab_workers EXCEPT ![p].pc = "done",
                                                         ![p].status = 404 ]
              /\ UNCHANGED user_vocabulary
         ELSE IF doc[1].user_email # vocab_workers[p].user
         THEN /\ vocab_workers' = [ vocab_workers EXCEPT ![p].pc = "done",
                                                         ![p].status = 403 ]
              /\ UNCHANGED user_vocabulary
         ELSE /\ user_vocabulary' = [ user_vocabulary EXCEPT ![vocab_id] = None ]
              /\ vocab_workers' = [ vocab_workers EXCEPT ![p].pc = "done",
                                                         ![p].status = 200 ]
  /\ UNCHANGED << braille_vars, user_vars, quiz_vars >>

\* The response of the process's request is sent.
vocab_respond(p) ==
  /\ vocab_workers[p].pc = "done"
  /\ vocab_workers' = [ vocab_workers EXCEPT ![p] = VocabIdle ]
  /\ UNCHANGED << braille_vars, user_vocabulary, user_vars, quiz_vars >>

NextVocab ==
  \E p \in VocabWorkers :
     \/ create_vocabulary_item_query(p)
     \/ create_vocabulary_item_add(p)
     \/ delete_vocabulary_item_get(p)
     \/ delete_vocabulary_item_delete(p)
     \/ vocab_respond(p)

SpecVocab == Init /\ [][NextVocab]_vars

(***************************************************************************)
(* controllers/user_controller.py.  Each operation runs from its first line *)
(* to its return as one step.                                               *)
(***************************************************************************)
\* The email addresses of the requests.
Emails == {"a@example.com", "b@example.com"}

\* kakao_id and naver_id of the requests.
OAuthIds == {"id_1", "id_2"}

\* access_token of the requests.
AccessTokens == {"token_1", "token_x"}

\* nickname of the requests.
Nicknames == {"nick_1"}

\* create_access_token(data={"sub": ..., "user_id": ...})
create_access_token(sub, user_id) == [ sub |-> sub, user_id |-> user_id ]

\* users_ref.where('email', '==', email).get(): the ids of the documents.
docs_by_email(email) == { i \in 1..Len(users) : users[i].email = email }

\* users_ref.where('oauth_id', '==', oauth_id).where('oauth_provider', '==',
\* provider).get()
docs_by_oauth(provider, oauth_id) ==
  { i \in 1..Len(users) :
      users[i].oauth_id = Some(oauth_id) /\ users[i].oauth_provider = Some(provider) }

\* signup that adds the account without looking for the email.
signup_unchecked ==
  /\ Len(users) < MaxUsers
  /\ \E email \in Emails :
       /\ users' = Append(users, [ email |-> email, name |-> "name",
                                    nickname |-> "name", oauth_provider |-> None,
                                    oauth_id |-> None, hashed_password |-> TRUE ])
       /\ auth' = [ NoAuth EXCEPT !.op = "signup", !.email = email, !.status = 200 ]
  /\ UNCHANGED << braille_vars, vocab_vars, quiz_vars >>

\* UserController.signup: 400 for an email that a document has, else the
\* account is added, with a hashed password and no OAuth identity.
signup ==
  /\ \E email \in Emails :
       IF docs_by_email(email) # {}
       THEN /\ auth' = [ NoAuth EXCEPT !.op = "signup", !.email = email, !.status = 400 ]
            /\ UNCHANGED users
       ELSE /\ Len(users) < MaxUsers
            /\ users' = Append(users, [ email |-> email, name |-> "name",
                                         nickname |-> "name", oauth_provider |-> None,
                                         oauth_id |-> None, hashed_password |-> TRUE ])
            /\ auth' = [ NoAuth EXCEPT !.op = "signup", !.email = email, !.status = 200 ]
  /\ UNCHANGED << braille_vars, vocab_vars, quiz_vars >>

\* The body that kakao_login and naver_login share, the provider's name apart.
\* The access_token of the request is not read.
oauth_login(op, provider, access_token, oauth_id, email, nickname) ==
  LET existing_docs == docs_by_oauth(provider, oauth_id)
      email_docs == docs_by_email(email)
      answer(user_data, user_id, is_new_user) ==
        [ op |-> op, email |-> email, oauth_id |-> oauth_id,
          access_token |-> access_token, status |-> 200,
          token |-> Some(create_access_token(user_data.email, user_id)),
          is_new_user |-> is_new_user ]
  IN  IF existing_docs = {}
      THEN IF email_docs # {}
           THEN \E user_id \in email_docs :
                   /\ users' = [ users EXCEPT ![user_id].oauth_provider = Some(provider),
                                              ![user_id].oauth_id = Some(oauth_id),
                                              ![user_id].nickname = nickname ]
                   /\ auth' = answer(users[user_id], user_id, FALSE)
           ELSE /\ Len(users) < MaxUsers
                /\ LET user_dict == [ email |-> email, name |-> nickname,
                                      nickname |-> nickname,
                                      oauth_provider |-> Some(provider),
                                      oauth_id |-> Some(oauth_id),
                                      hashed_password |-> FALSE ]
                   IN  /\ users' = Append(users, user_dict)
                       /\ auth' = answer(user_dict, Len(users) + 1, TRUE)
      ELSE \E user_id \in existing_docs :
              /\ users' = [ users EXCEPT ![user_id].nickname = nickname ]
              /\ auth' = answer(users[user_id], user_id, FALSE)

\* UserController.kakao_login
kakao_login ==
  /\ \E access_token \in AccessTokens, kakao_id \in OAuthIds, email \in Emails,
        nickname \in Nicknames :
       oauth_login("kakao_login", "kakao", access_token, kakao_id, email, nickname)
  /\ UNCHANGED << braille_vars, vocab_vars, quiz_vars >>

\* UserController.naver_login
naver_login ==
  /\ \E access_token \in AccessTokens, naver_id \in OAuthIds, email \in Emails,
        nickname \in Nicknames :
       oauth_login("naver_login", "naver", access_token, naver_id, email, nickname)
  /\ UNCHANGED << braille_vars, vocab_vars, quiz_vars >>

\* UserController.update_profile for the email of the caller's token, which
\* get_current_user has found in the collection: the fields given are
\* written, the email is not among them.  UserProfile(id=user_id) then takes
\* the document id, a string, for an int, and the operation ends in 500.
update_profile ==
  /\ \E email \in Emails, nickname \in Nicknames :
       LET docs == docs_by_email(email)
       IN  /\ docs # {}
           /\ \E user_id \in docs :
                 users' = [ users EXCEPT ![user_id].nickname = nickname ]
           /\ auth' = [ NoAuth EXCEPT !.op = "update_profile", !.email = email,
                                      !.status = 500 ]
  /\ UNCHANGED << braille_vars, vocab_vars, quiz_vars >>

NextUsers == signup \/ kakao_login \/ naver_login \/ update_profile

SpecUsers == Init /\ [][NextUsers]_vars

(***************************************************************************)
(* controllers/quiz_controller.py.  A quiz is generated, submissions to it  *)
(* are graded one at a time, each answered before the next is taken.        *)
(***************************************************************************)
\* user.email of the requests.
QuizUsers == {"a@example.com", "b@example.com"}

\* submission.quiz_id of the requests, and so the quizzes ever generated.
QuizIds == {1}

\* answer.question_index of the requests.
QuestionIndexes == {0, 1}

\* answer.user_answer of the requests: "A" and "B " (with a space after it).
UserAnswers == { <<65>>, <<66, 32>> }

\* The submissions' lists of answers.
AnswerLists ==
  UNION { [ 1..n -> [ question_index : QuestionIndexes, user_answer : UserAnswers ] ] :
            n \in 0..MaxAnswers }

\* What generate_quiz_with_ai returns as the questions, n of them: the correct
\* answers are "A", "B", "A", ...
generated_questions(n) ==
  [ k \in 1..n |-> [ question       |-> k,
                     correct_answer |-> IF k % 2 = 1 THEN <<65>> ELSE <<66>> ] ]

\* QuizController.generate_quiz: the quiz is stored under a new id.
generate_quiz ==
  /\ submitted.status = 0
  /\ Len(quizzes) < Cardinality(QuizIds)
  /\ \E user \in QuizUsers, n \in 0..MaxQuestions :
       quizzes' = Append(quizzes, [ user_email |-> user,
                                    questions  |-> generated_questions(n) ])
  /\ UNCHANGED << braille_vars, vocab_vars, user_vars, quiz_results, submitted >>

\* The loop of submit_quiz with questions[i % len(questions)] for questions[i]
\* and no `if i < len(questions)`.
grade_wrapping(questions, answers) ==
  IF questions = <<>>
  THEN <<>>
  ELSE [ k \in 1..Len(answers) |->
           LET i == k - 1
               question == questions[(i % Len(questions)) + 1]
           IN  [ question_index |-> i,
                 question       |-> question.question,
                 user_answer    |-> answers[k].user_answer,
                 correct_answer |-> question.correct_answer,
                 is_correct     |-> strip(answers[k].user_answer)
                                      = strip(question.correct_answer) ] ]

\* The loop of submit_quiz: `for i, answer in enumerate(submission.answers)`
\* with `if i < len(questions)`; the feedback it builds, is_correct included.
grade(questions, answers) ==
  LET graded == IF Len(answers) < Len(questions) THEN Len(answers) ELSE Len(questions)
  IN  [ k \in 1..graded |->
          LET i == k - 1
              question == questions[i + 1]
          IN  [ question_index |-> i,
                question       |-> question.question,
                user_answer    |-> answers[k].user_answer,
                correct_answer |-> question.correct_answer,
                is_correct     |-> strip(answers[k].user_answer)
                                     = strip(question.correct_answer) ] ]

\* result_data of submit_quiz: correct_count, total_questions, the percentage
\* (its whole part) and the feedback.
result_data(quiz_id, user, questions, feedback) ==
  LET correct_count == Cardinality({ k \in 1..Len(feedback) : feedback[k].is_correct })
      total_questions == Len(questions)
  IN  [ quiz_id         |-> quiz_id,
        user_email      |-> user,
        score           |-> correct_count,
        total_questions |-> total_questions,
        percentage      |-> IF total_questions > 0
                            THEN (correct_count * 100) \div total_questions
                            ELSE 0,
        feedback        |-> feedback ]

\* QuizController.submit_quiz: 404 for no quiz, 403 for the quiz of another
\* user, else the answers are graded, the result is added to 'quiz_results'
\* and returned.
submit_quiz ==
  /\ submitted.status = 0
  /\ \E user \in QuizUsers, quiz_id \in QuizIds, answers \in AnswerLists :
       LET taken == [ NoSubmission EXCEPT !.user = user, !.quiz_id = quiz_id,
                                          !.answers = answers ]
       IN  IF quiz_id \notin 1..Len(quizzes)
           THEN /\ submitted' = [ taken EXCEPT !.status = 404 ]
                /\ UNCHANGED quiz_results
           ELSE IF quizzes[quiz_id].user_email # user
           THEN /\ submitted' = [ taken EXCEPT !.status = 403 ]
                /\ UNCHANGED quiz_results
           ELSE /\ Len(quiz_results) < MaxResults
                /\ \E result \in { result_data(quiz_id, user, quizzes[quiz_id].questions,
                                                grade(quizzes[quiz_id].questions,
                                                      answers)) } :
                      /\ quiz_results' = Append(quiz_results, result)
                      /\ submitted' = [ taken EXCEPT !.status = 200,
                                                     !.result = Some(result) ]
  /\ UNCHANGED << braille_vars, vocab_vars, user_vars, quizzes >>

\* The response of the submission is sent.
quiz_respond ==
  /\ submitted.status # 0
  /\ submitted' = NoSubmission
  /\ UNCHANGED << braille_vars, vocab_vars, user_vars, quizzes, quiz_results >>

NextQuiz == generate_quiz \/ submit_quiz \/ quiz_respond

SpecQuiz == Init /\ [][NextQuiz]_vars

(***************************************************************************)
(* Properties                                                               *)
(***************************************************************************)
EntryCount == Len(ALL_BRAILLE_DATA_seed)

\* The place of the entry with this id in the seed table.
PositionOf(id) == CHOOSE i \in 1..EntryCount : ALL_BRAILLE_DATA_seed[i].id = id

\* The text q occurs in the text s, the case of letters ignored.
OccursIn(q, s) ==
  \E k \in 0..Len(s) :
     /\ k + Len(q) <= Len(s)
     /\ \A j \in 1..Len(q) : lower_char(s[k + j]) = lower_char(q[j])

\* The entry e matches the search text q by its character or by its name.
MatchesQuery(e, q) == OccursIn(q, e.character) \/ OccursIn(q, e.name)

\* result holds exactly the entries of the seed table that satisfy Keep, each
\* once and as BrailleCharacter builds it, in the order of the table.
ExactlyInTableOrder(result, Keep(_)) ==
  /\ \A k \in 1..Len(result) :
        \E i \in 1..EntryCount :
           /\ result[k] = BrailleCharacter(ALL_BRAILLE_DATA_seed[i])
           /\ Keep(ALL_BRAILLE_DATA_seed[i])
  /\ \A i \in 1..EntryCount :
        Keep(ALL_BRAILLE_DATA_seed[i]) =>
           \E k \in 1..Len(result) : result[k].id = ALL_BRAILLE_DATA_seed[i].id
  /\ \A k \in 1..(Len(result) - 1) :
        PositionOf(result[k].id) < PositionOf(result[k + 1].id)

\* C1: the id lookup answers an id of the seed table with the entry of that id,
\* and any other id with 404 and no entry.
C1_EntryByIdOrNotFound ==
  request.handler = "get_braille_character" =>
     LET id == request.character_id[1]
         present == \E i \in 1..EntryCount : ALL_BRAILLE_DATA_seed[i].id = id
     IN  IF present
         THEN /\ response.status = 200
              /\ response.body[1].id = id
              /\ response.body[1] = BrailleCharacter(ALL_BRAILLE_DATA_seed[PositionOf(id)])
         ELSE /\ response.status = 404
              /\ response.body = None

\* The last entry of the table has been looked up by its id.
C1_Witness ==
  /\ pc = "done"
  /\ request.handler = "get_braille_character"
  /\ request.character_id = Some("punct_08")
  /\ response.status = 200
  /\ response.body[1].id = "punct_08"

\* C2: every run of search_braille returns exactly the entries whose character
\* or name contains the lower-cased query, in table order (the empty sequence
\* when there is none), and the request that ran it is answered, not failed.
C2_SearchByCharacterOrName ==
  \A n \in 1..Len(calls) :
     calls[n].op = "search_braille" =>
        LET q == calls[n].query[1]
            Keep(e) == MatchesQuery(e, q)
        IN  /\ ExactlyInTableOrder(calls[n].result, Keep)
            /\ response.status = 200

\* A search for " gi" (space, U+AE30) has run: the name of the final consonant
\* giyeok alone holds it, though the description of the initial one holds it too.
C2_Witness ==
  /\ pc = "done"
  /\ \E n \in 1..Len(calls) :
        /\ calls[n].op = "search_braille"
        /\ calls[n].query = Some(<<32, 44592>>)
        /\ Len(calls[n].result) = 1
        /\ calls[n].result[1].id = "cons_final_01"

\* C3: the list endpoint called with a category c and a search text q returns
\* exactly the entries that match q and are of category c, in table order;
\* that is entriesByCategory(c) filtered by q, and search(q) filtered by c.
C3_CombinedFilterIsIntersection ==
  ( /\ request.handler = "get_braille_library"
    /\ request.category # None /\ request.search # None
    /\ request.category[1] \in BrailleCategoryValues
    /\ request.search[1] # <<>> ) =>
     LET c == request.category[1]
         q == request.search[1]
         Both(e) == MatchesQuery(e, q) /\ e.category = c
         ByQuery(e) == MatchesQuery(e, q)
         ByCategory(e) == e.category = c
     IN  /\ response.status = 200
         /\ ExactlyInTableOrder(response.body[1].characters, Both)
         /\ response.body[1].characters = SelectSeq(get_braille_by_category(c), ByQuery)
         /\ response.body[1].characters = SelectSeq(search_braille(q), ByCategory)

\* category=vowel with search=U+314F: the base vowel alone, though the search
\* alone also finds the vowel sequence U+3157 U+314F.
C3_Witness ==
  /\ pc = "done"
  /\ request.handler = "get_braille_library"
  /\ request.category = Some("vowel")
  /\ request.search = Some(<<12623>>)
  /\ response.status = 200
  /\ response.body[1].total_count = 1
  /\ response.body[1].characters[1].id = "vowel_01"
  /\ Len(calls[1].result) = 2

\* C4: every run of get_braille_by_category(c) returns exactly the entries of
\* category c in table order, so an entry is in the result once if c is its
\* category and not at all otherwise.
C4_EntriesByCategory ==
  \A n \in 1..Len(calls) :
     calls[n].op = "get_braille_by_category" =>
        LET c == calls[n].category[1]
            result == calls[n].result
            Keep(e) == e.category = c
        IN  /\ ExactlyInTableOrder(result, Keep)
            /\ \A i \in 1..EntryCount :
                  Cardinality({ k \in 1..Len(result) :
                                  result[k].id = ALL_BRAILLE_DATA_seed[i].id })
                    = IF ALL_BRAILLE_DATA_seed[i].category = c THEN 1 ELSE 0

\* The fourteen final consonants have been listed by their category.
C4_Witness ==
  /\ pc = "done"
  /\ \E n \in 1..Len(calls) :
        /\ calls[n].op = "get_braille_by_category"
        /\ calls[n].category = Some("consonant_final")
        /\ Len(calls[n].result) = 14
        /\ calls[n].result[14].id = "cons_final_14"

\* The ids of a sequence of entries, in order.
Ids(result) == [ k \in 1..Len(result) |-> result[k].id ]

\* C5: on the list endpoint and on the search-path endpoint an empty or
\* whitespace-only search text is answered with a client error, and
\* search_braille does not run.
C5_BlankSearchRejected ==
  ( /\ request.handler \in {"get_braille_library", "search_braille_characters"}
    /\ request.search # None
    /\ strip(request.search[1]) = <<>> ) =>
       /\ response.status \in 400..499
       /\ \A n \in 1..Len(calls) : calls[n].op # "search_braille"

\* C6: a search text that both endpoints accept gets from the search-path
\* endpoint the response the list endpoint gives it as its only filter.
C6_SearchPathEqualsListSearch ==
  ( /\ request.handler = "search_braille_characters"
    /\ response.status = 200
    /\ ValidSearchParam(request.search) ) =>
       response = get_braille_library(None, request.search).response

\* C7 as claimed: entriesByCategory("number") returns eleven entries, the ten
\* digits and the number sign.
C7_NumberHasElevenEntries ==
  \A n \in 1..Len(calls) :
     ( calls[n].op = "get_braille_by_category"
       /\ calls[n].category = Some("number") ) =>
          /\ Len(calls[n].result) = 11
          /\ \E k \in 1..Len(calls[n].result) : calls[n].result[k].id = "number_prefix"

\* C7, amended: entriesByCategory("number") returns ten entries, the digits 1-9
\* and 0 in that order; the number sign is the one entry of category "prefix".
C7_NumberHasTenDigits ==
  \A n \in 1..Len(calls) :
     calls[n].op = "get_braille_by_category" =>
        /\ calls[n].category = Some("number") =>
              Ids(calls[n].result) =
                << "number_01", "number_02", "number_03", "number_04", "number_05",
                   "number_06", "number_07", "number_08", "number_09", "number_00" >>
        /\ calls[n].category = Some("prefix") =>
              Ids(calls[n].result) = << "number_prefix" >>

\* The numbers have been listed by their category.
C7_Witness ==
  /\ pc = "done"
  /\ \E n \in 1..Len(calls) :
        /\ calls[n].op = "get_braille_by_category"
        /\ calls[n].category = Some("number")
        /\ Len(calls[n].result) = 10

\* C8 as claimed: search(U+AE30 U+C5ED) returns cons_initial_01 and nothing else.
C8_GiyeokHasOneResult ==
  \A n \in 1..Len(calls) :
     ( calls[n].op = "search_braille"
       /\ calls[n].query = Some(<<44592, 50669>>) ) =>
          Ids(calls[n].result) = << "cons_initial_01" >>

\* C8, amended: search(U+AE30 U+C5ED) returns three entries, in table order:
\* cons_initial_01 and the two whose names end with the query, cons_initial_15
\* (U+C30D U+AE30 U+C5ED) and cons_final_01 (U+BC1B U+CE68, space, U+AE30 U+C5ED).
C8_GiyeokHasThreeResults ==
  \A n \in 1..Len(calls) :
     ( calls[n].op = "search_braille"
       /\ calls[n].query = Some(<<44592, 50669>>) ) =>
          Ids(calls[n].result) = << "cons_initial_01", "cons_initial_15", "cons_final_01" >>

\* The list endpoint has searched for U+AE30 U+C5ED.
C8_Witness ==
  /\ pc = "done"
  /\ request.handler = "get_braille_library"
  /\ request.category = None
  /\ request.search = Some(<<44592, 50669>>)
  /\ response.status = 200
  /\ response.body[1].total_count = 3

\* C9: the table is the seed table in every state, whatever requests have been
\* served, and every run of get_all_braille_characters returns the same
\* sequence, the seed entries in order.
C9_TableReadOnly ==
  /\ ALL_BRAILLE_DATA = ALL_BRAILLE_DATA_seed
  /\ \A n \in 1..Len(calls) :
        calls[n].op = "get_all_braille_characters" =>
           calls[n].result =
             [ i \in 1..EntryCount |-> BrailleCharacter(ALL_BRAILLE_DATA_seed[i]) ]

\* A filtering request has been served and the next request is awaited.
C9_Witness ==
  /\ pc = "done"
  /\ request.handler = "get_braille_library"
  /\ request.category = Some("punctuation")
  /\ request.search = Some(<<32>>)
  /\ response.status = 200
  /\ response.body[1].total_count = 0
  /\ Len(ALL_BRAILLE_DATA) = 81

\* C10: no two entries of the table, of whatever seed group, have the same id,
\* and no two entries that get_all_braille_characters returns have.
C10_IdsUnique ==
  /\ Cardinality({ ALL_BRAILLE_DATA[i].id : i \in 1..Len(ALL_BRAILLE_DATA) })
       = Len(ALL_BRAILLE_DATA)
  /\ \A n \in 1..Len(calls) :
        calls[n].op = "get_all_braille_characters" =>
           Cardinality({ calls[n].result[k].id : k \in 1..Len(calls[n].result) })
             = Len(calls[n].result)

\* The whole table, all six groups, has been returned.
C10_Witness ==
  /\ pc = "done"
  /\ request.handler = "get_braille_library"
  /\ request.category = None /\ request.search = None
  /\ response.status = 200
  /\ response.body[1].total_count = 81
  /\ response.body[1].characters[1].id = "cons_initial_01"
  /\ response.body[1].characters[81].id = "punct_08"

\* The categories of the six seed groups, in the order of the groups.
GroupCategories ==
  << BrailleCategory.CONSONANT_INITIAL, BrailleCategory.CONSONANT_FINAL,
     BrailleCategory.VOWEL, BrailleCategory.VOWEL_SEQUENCE, BrailleCategory.NUMBER,
     BrailleCategory.PUNCTUATION >>

\* C11: every run of get_all_braille_characters returns the entries of the six
\* seed groups, group after group and each entry once; entries of one category
\* are next to each other (if a later entry has the category of this one, so has
\* the next), and the categories of the groups come in the order of the groups.
\* The list endpoint called with no filter returns that sequence.
C11_AllEntriesInSeedOrder ==
  \A n \in 1..Len(calls) :
     calls[n].op = "get_all_braille_characters" =>
        LET result == calls[n].result
            size == Len(result)
        IN  /\ Ids(result) =
                 Ids(INITIAL_CONSONANTS) \o Ids(FINAL_CONSONANTS) \o Ids(VOWELS)
                   \o Ids(VOWEL_SEQUENCES) \o Ids(NUMBERS) \o Ids(PUNCTUATION)
            /\ size = EntryCount
            /\ \A i \in 1..EntryCount :
                  /\ result[i] = BrailleCharacter(ALL_BRAILLE_DATA_seed[i])
                  /\ Cardinality({ k \in 1..size :
                                     result[k].id = ALL_BRAILLE_DATA_seed[i].id }) = 1
            /\ \A i \in 1..(size - 1) : \A j \in (i + 1)..size :
                  result[i].category = result[j].category =>
                     result[i + 1].category = result[i].category
            /\ \A i \in 1..(size - 1) : \A j \in (i + 1)..size :
                  \A a, b \in 1..Len(GroupCategories) :
                     ( result[i].category = GroupCategories[a]
                       /\ result[j].category = GroupCategories[b] ) => a <= b
            /\ request.handler = "get_braille_library" =>
                  /\ response.status = 200
                  /\ response.body[1].characters = result

\* The list endpoint has been called with no filter and has returned the table,
\* the groups meeting at entries 19/20, 33/34, 54/55, 62/63 and 73/74.
C11_Witness ==
  /\ pc = "done"
  /\ request.handler = "get_braille_library"
  /\ request.category = None /\ request.search = None
  /\ calls[1].op = "get_all_braille_characters"
  /\ Ids(SubSeq(response.body[1].characters, 19, 20)) = << "cons_initial_19", "cons_final_01" >>
  /\ Ids(SubSeq(response.body[1].characters, 33, 34)) = << "cons_final_14", "vowel_01" >>
  /\ Ids(SubSeq(response.body[1].characters, 54, 55)) = << "vowel_21", "vowel_seq_01" >>
  /\ Ids(SubSeq(response.body[1].characters, 62, 63)) = << "vowel_seq_08", "number_prefix" >>
  /\ Ids(SubSeq(response.body[1].characters, 73, 74)) = << "number_00", "punct_01" >>

\* C12: every run of get_available_categories returns the eight identifiers in
\* the order the enum declares them, whatever request is served and whatever
\* its filters select, and the category-list endpoint returns that list as it is.
C12_AvailableCategoriesFixed ==
  /\ \A n \in 1..Len(calls) :
        calls[n].op = "get_available_categories" =>
           calls[n].result =
             << "consonant_initial", "consonant_final", "vowel", "vowel_sequence",
                "number", "punctuation", "special", "prefix" >>
  /\ request.handler = "get_categories" =>
        /\ response.status = 200
        /\ Len(calls) = 1 /\ calls[1].op = "get_available_categories"
        /\ response.body = Some(calls[1].result)

\* The category list has been asked for.
C12_Witness ==
  /\ pc = "done"
  /\ request.handler = "get_categories"
  /\ response.status = 200
  /\ Len(response.body[1]) = 8
  /\ response.body[1][5] = "number"

\* The ASCII letters of a text with their case changed, and in capitals.
SwapCase(q) ==
  [ i \in 1..Len(q) |-> IF q[i] \in 65..90 THEN q[i] + 32
                        ELSE IF q[i] \in 97..122 THEN q[i] - 32 ELSE q[i] ]

Upper(q) == [ i \in 1..Len(q) |-> IF q[i] \in 97..122 THEN q[i] - 32 ELSE q[i] ]

C15_TableOperationsTotal ==
  /\ response.status # 500
  /\ response.status = 404 => request.handler = "get_braille_character"
  /\ response.status \in {400, 422} => calls = <<>>
  /\ pc = "done" => response.status \in {200, 400, 404, 422}
  /\ \A n \in 1..Len(calls) :
        LET op == calls[n].op
            size == Len(calls[n].result)
        IN  /\ op = "get_all_braille_characters" => size = EntryCount
            /\ op = "get_braille_by_category" =>
                  size = Cardinality({ i \in 1..EntryCount :
                           ALL_BRAILLE_DATA_seed[i].category = calls[n].category[1] })
            /\ op = "search_braille" =>
                  size = Cardinality({ i \in 1..EntryCount :
                           MatchesQuery(ALL_BRAILLE_DATA_seed[i], calls[n].query[1]) })
            /\ op = "get_available_categories" => size = 8

\* A search that nothing matches has returned the empty sequence, and the
\* request is answered with it.
C15_Witness ==
  /\ pc = "done"
  /\ request.handler = "search_braille_characters"
  /\ request.search = Some(<<65, 97, 32>>)
  /\ calls[1].op = "search_braille"
  /\ calls[1].query = Some(<<65, 97>>)
  /\ calls[1].result = <<>>
  /\ response.status = 200
  /\ response.body[1].total_count = 0

\* C16: a list request or a category-path request whose category is not one of
\* the eight identifiers is answered with 422 and has run no table operation;
\* get_braille_by_category itself, given such a text, raises nothing and
\* returns the empty sequence.
C16_UnknownCategoryRejected ==
  /\ ( /\ request.handler \in {"get_braille_library", "get_braille_by_category_name"}
       /\ request.category # None
       /\ request.category[1] \notin BrailleCategoryValues )
     => response.status = 422 /\ calls = <<>>
  /\ \A c \in RawCategories \ BrailleCategoryValues :
        ~get_braille_by_category_raises(c) /\ get_braille_by_category(c) = <<>>

\* The category path was asked for NUMBER, the name of a member of the enum and
\* not its value, and the request was refused.
C16_Witness ==
  /\ pc = "done"
  /\ request.handler = "get_braille_by_category_name"
  /\ request.category = Some("NUMBER")
  /\ response.status = 422
  /\ calls = <<>>

\* What the list endpoint answers when it is called with the category c alone.
ListWithOnlyCategory(c) ==
  IF ValidCategoryParam(Some(c)) /\ ValidSearchParam(None)
  THEN get_braille_library(Some(c), None)
  ELSE RequestValidationError

\* What the category path answers for the path segment c.
CategoryPath(c) ==
  IF ValidCategory(c) THEN get_braille_by_category_name(c) ELSE RequestValidationError

\* C17: the answer of the category path for c is the answer of the list
\* endpoint called with category=c alone, and the other way round: the same
\* status and the same body, that is total_count, categories and characters in
\* the same order.
C17_CategoryPathEqualsListCategory ==
  /\ request.handler = "get_braille_by_category_name"
     => response = ListWithOnlyCategory(request.category[1]).response
  /\ ( /\ request.handler = "get_braille_library"
       /\ request.search = None
       /\ request.category # None
       /\ request.category[1] \in PathCategories )
     => response = CategoryPath(request.category[1]).response

\* The category path has answered with the 21 vowels, as the list endpoint
\* does for category=vowel.
C17_Witness ==
  /\ pc = "done"
  /\ request.handler = "get_braille_by_category_name"
  /\ request.category = Some(BrailleCategory.VOWEL)
  /\ response.status = 200
  /\ response.body[1].total_count = 21
  /\ Len(response.body[1].characters) = 21
  /\ response = get_braille_library(Some(BrailleCategory.VOWEL), None).response

\* The eight identifiers, in the order get_available_categories lists them.
AvailableCategories ==
  << "consonant_initial", "consonant_final", "vowel", "vowel_sequence",
     "number", "punctuation", "special", "prefix" >>

\* C19: in every 200 response of the list endpoint, the category path and the
\* search path, total_count is the number of entries in characters and
\* categories is the fixed list of the eight identifiers, whatever the filters.
C19_CountAndCategoriesOfResponse ==
  ( /\ request.handler \in {"get_braille_library", "get_braille_by_category_name",
                            "search_braille_characters"}
    /\ response.status = 200 )
  => /\ response.body[1].total_count = Len(response.body[1].characters)
     /\ response.body[1].categories = AvailableCategories

\* The list endpoint was asked for a search and a category together, the
\* category took entries away from what the search found, and the response
\* counts what is left.
C19_Witness ==
  /\ pc = "done"
  /\ request.handler = "get_braille_library"
  /\ request.search = Some(<<44592>>)
  /\ request.category = Some(BrailleCategory.CONSONANT_FINAL)
  /\ response.status = 200
  /\ Len(calls[1].result) > Len(response.body[1].characters)
  /\ response.body[1].total_count = Len(response.body[1].characters)
  /\ response.body[1].total_count > 0
  /\ response.body[1].categories = AvailableCategories

\* C20: every dot number of every entry a table operation has returned, and of
\* every entry of a response, is one of 1..6.
C20_DotsInOneToSix ==
  /\ \A n \in 1..Len(calls) :
        calls[n].op # "get_available_categories" =>
           \A i \in 1..Len(calls[n].result) :
              \A k \in 1..Len(calls[n].result[i].braille_dots) :
                 calls[n].result[i].braille_dots[k] \in 1..6
  /\ ( request.handler = "get_braille_character" /\ response.status = 200 )
     => \A k \in 1..Len(response.body[1].braille_dots) :
           response.body[1].braille_dots[k] \in 1..6

\* The whole table was returned: 81 entries, among them the space with no dot
\* and an entry of two cells whose dots go from 1 up to 6.
C20_Witness ==
  /\ pc = "done"
  /\ calls # <<>>
  /\ calls[1].op = "get_all_braille_characters"
  /\ Len(calls[1].result) = 81
  /\ \E i \in 1..81 : calls[1].result[i].braille_dots = <<>>
  /\ \E i \in 1..81 :
        /\ \E k \in DOMAIN calls[1].result[i].braille_dots :
              calls[1].result[i].braille_dots[k] = 1
        /\ \E k \in DOMAIN calls[1].result[i].braille_dots :
              calls[1].result[i].braille_dots[k] = 6

\* The entries of the seed table that a request's filters keep, in the order
\* of the table, as BrailleCharacter builds them.
KeptOfSeed(req) ==
  LET keep(e) ==
        /\ req.search # None => MatchesQuery(e, req.search[1])
        /\ req.category # None => e.category = req.category[1]
      kept == SelectSeq(ALL_BRAILLE_DATA_seed, keep)
  IN  [ k \in 1..Len(kept) |-> BrailleCharacter(kept[k]) ]

\* The response a request of ConcurrentRequests gets when it is the only one
\* the server has in hand, stated from the seed table.
Alone(req) ==
  IF req.handler = "get_braille_character"
  THEN IF \E i \in 1..EntryCount : ALL_BRAILLE_DATA_seed[i].id = req.character_id[1]
       THEN Ok(BrailleCharacter(ALL_BRAILLE_DATA_seed[PositionOf(req.character_id[1])]))
       ELSE HTTPException(404)
  ELSE IF req.category # None /\ req.category[1] \notin BrailleCategoryValues
  THEN HTTPException(422)
  ELSE Ok(BrailleLibraryResponse(Len(KeptOfSeed(req)), AvailableCategories,
                                 KeptOfSeed(req)))

\* C18: with several requests in hand and no lock, in whatever order they
\* arrive, run and are answered, each response is the one its request gets
\* alone, and the table stays the seed table.
C18_ConcurrentReadsSafe ==
  /\ ALL_BRAILLE_DATA = ALL_BRAILLE_DATA_seed
  /\ \A c \in Clients :
        inflight[c].pc = "done" => inflight[c].response = Alone(inflight[c].request)

\* Two callers' requests are answered and not yet sent: a list request with
\* both filters, which kept one of the two entries its search found, and a
\* search, which found its four entries.
C18_Witness ==
  /\ inflight[1].pc = "done"
  /\ inflight[1].request.handler = "get_braille_library"
  /\ inflight[1].request.search = Some(<<12623>>)
  /\ inflight[1].response.status = 200
  /\ Ids(inflight[1].response.body[1].characters) = << "vowel_01" >>
  /\ inflight[2].pc = "done"
  /\ inflight[2].request.handler = "search_braille_characters"
  /\ inflight[2].response.status = 200
  /\ Ids(inflight[2].response.body[1].characters)
       = << "cons_initial_01", "cons_initial_15", "cons_final_01", "punct_08" >>

\* The tensed initial consonants with their base consonants, as code points:
\* U+3132/U+3131, U+3138/U+3137, U+3143/U+3142, U+3146/U+3145, U+3149/U+3148.
TensedPairs ==
  { <<12594, 12593>>, <<12600, 12599>>, <<12611, 12610>>, <<12614, 12613>>,
    <<12617, 12616>> }

\* The places in a sequence of entries of the initial consonant c.
InitialsOf(entries, c) ==
  { i \in 1..Len(entries) :
      /\ entries[i].category = BrailleCategory.CONSONANT_INITIAL
      /\ entries[i].character = <<c>> }

\* In a sequence of entries, every tensed initial consonant has the dots of
\* each entry of its base consonant, written twice.
TensedAreDoubled(entries) ==
  \A p \in TensedPairs :
     \A i \in InitialsOf(entries, p[1]) :
        \A j \in InitialsOf(entries, p[2]) :
           entries[i].braille_dots = entries[j].braille_dots \o entries[j].braille_dots

\* C21: the table has one entry for each of the five tensed initial consonants
\* and one for each of their base consonants, and the dots of the tensed one
\* are the dots of the base one written twice; the same holds in everything
\* the operations that return whole groups have returned.
C21_TensedIsBaseTwice ==
  /\ \A p \in TensedPairs :
        /\ Cardinality(InitialsOf(ALL_BRAILLE_DATA, p[1])) = 1
        /\ Cardinality(InitialsOf(ALL_BRAILLE_DATA, p[2])) = 1
  /\ TensedAreDoubled(ALL_BRAILLE_DATA)
  /\ \A n \in 1..Len(calls) :
        calls[n].op \in {"get_all_braille_characters", "get_braille_by_category"}
          => TensedAreDoubled(calls[n].result)

\* The initial consonants were asked for and came back, 19 of them, U+3146
\* among them with the three dots of U+3145 twice.
C21_Witness ==
  /\ pc = "done"
  /\ calls # <<>>
  /\ calls[1].op = "get_braille_by_category"
  /\ calls[1].category = Some(BrailleCategory.CONSONANT_INITIAL)
  /\ Len(calls[1].result) = 19
  /\ \E i \in 1..19 :
        /\ calls[1].result[i].character = <<12614>>
        /\ calls[1].result[i].braille_dots = <<1, 2, 3, 1, 2, 3>>

\* C22: the id lookup for cons_initial_01 answers 200 with the entry whose
\* character is U+3131, whose dots are [4] and whose category is
\* consonant_initial.
C22_GiyeokInitialEntry ==
  ( /\ request.handler = "get_braille_character"
    /\ request.character_id = Some("cons_initial_01") )
  => /\ response.status = 200
     /\ response.body[1].id = "cons_initial_01"
     /\ response.body[1].character = <<12593>>
     /\ response.body[1].braille_dots = <<4>>
     /\ response.body[1].category = "consonant_initial"

\* cons_initial_01 has been looked up and an entry of that id is the answer.
C22_Witness ==
  /\ pc = "done"
  /\ request.handler = "get_braille_character"
  /\ request.character_id = Some("cons_initial_01")
  /\ response.status = 200
  /\ response.body[1].id = "cons_initial_01"
  /\ calls[1].op = "get_all_braille_characters"

\* The places in a sequence of entries of the final consonant c.
FinalsOf(entries, c) ==
  { i \in 1..Len(entries) :
      /\ entries[i].category = BrailleCategory.CONSONANT_FINAL
      /\ entries[i].character = <<c>> }

\* In a sequence of entries there is a final consonant c, and every entry of it
\* has these dots.
FinalHasDots(entries, c, dots) ==
  /\ FinalsOf(entries, c) # {}
  /\ \A i \in FinalsOf(entries, c) : entries[i].braille_dots = dots

\* C30 as stated: the finals U+3134 and U+3147 both have the dots [2,6].
C30_NieunAndIeungShareDots ==
  /\ FinalHasDots(ALL_BRAILLE_DATA, 12596, <<2, 6>>)
  /\ FinalHasDots(ALL_BRAILLE_DATA, 12615, <<2, 6>>)

\* C30: the two finals with the same dots are U+3141 and U+3147, both [2,6];
\* the final U+3134 has [2,5], and no other two finals of the table have the
\* same dots.  The final consonants come back from the table so.
C30_MieumAndIeungShareDots ==
  /\ FinalHasDots(ALL_BRAILLE_DATA, 12609, <<2, 6>>)
  /\ FinalHasDots(ALL_BRAILLE_DATA, 12615, <<2, 6>>)
  /\ FinalHasDots(ALL_BRAILLE_DATA, 12596, <<2, 5>>)
  /\ LET finals == { i \in 1..Len(ALL_BRAILLE_DATA) :
                       ALL_BRAILLE_DATA[i].category = BrailleCategory.CONSONANT_FINAL }
     IN  \A i \in finals :
            \A j \in finals :
               ( /\ i < j
                 /\ ALL_BRAILLE_DATA[i].braille_dots = ALL_BRAILLE_DATA[j].braille_dots )
               => /\ ALL_BRAILLE_DATA[i].id = "cons_final_05"
                  /\ ALL_BRAILLE_DATA[j].id = "cons_final_08"
  /\ \A n \in 1..Len(calls) :
        ( /\ calls[n].op = "get_braille_by_category"
          /\ calls[n].category = Some(BrailleCategory.CONSONANT_FINAL) )
        => /\ FinalHasDots(calls[n].result, 12609, <<2, 6>>)
           /\ FinalHasDots(calls[n].result, 12615, <<2, 6>>)
           /\ FinalHasDots(calls[n].result, 12596, <<2, 5>>)

\* The final consonants were asked for and came back, the fifth and the eighth
\* with the same dots and the second with others.
C30_Witness ==
  /\ pc = "done"
  /\ calls # <<>>
  /\ calls[1].op = "get_braille_by_category"
  /\ calls[1].category = Some(BrailleCategory.CONSONANT_FINAL)
  /\ Len(calls[1].result) = 14
  /\ calls[1].result[5].character = <<12609>>
  /\ calls[1].result[8].character = <<12615>>
  /\ calls[1].result[5].braille_dots = calls[1].result[8].braille_dots
  /\ calls[1].result[2].character = <<12596>>
  /\ calls[1].result[2].braille_dots # calls[1].result[8].braille_dots

\* C29: a request for /library/categories is answered by the category list;
\* one for /library/category/{c} by the category handler and one for
\* /library/search/{q} by the search handler; the id lookup answers paths of
\* two segments only and is never given the id "categories".
C29_RoutePrecedence ==
  /\ path = <<"library", "categories">> =>
        /\ request.handler = "get_categories"
        /\ response.status = 200
        /\ response.body = Some(AvailableCategories)
  /\ ( Len(path) = 3 /\ path[1] = "library" /\ path[2] = "category" ) =>
        /\ request.handler = "get_braille_by_category_name"
        /\ request.category = Some(path[3])
  /\ ( Len(path) = 3 /\ path[1] = "library" /\ path[2] = "search" ) =>
        /\ request.handler = "search_braille_characters"
        /\ request.search = Some(text_of(path[3]))
  /\ request.handler = "get_braille_character" =>
        /\ Len(path) = 2
        /\ path[1] = "library"
        /\ request.character_id = Some(path[2])
        /\ request.character_id # Some("categories")
        /\ \A n \in 1..Len(calls) : calls[n].op = "get_all_braille_characters"

\* /library/categories has been asked for and the eight categories are the
\* answer, with no run of the operation the id lookup uses.
C29_Witness ==
  /\ pc = "done"
  /\ path = <<"library", "categories">>
  /\ request.handler = "get_categories"
  /\ response.status = 200
  /\ Len(response.body[1]) = 8
  /\ Len(calls) = 1
  /\ calls[1].op = "get_available_categories"

\* One step of the vocabulary controller as delete_vocabulary_item should take
\* it: what get() returned is what the collection held; the outcome is 404 for
\* no document, 403 for a document of another user, and in both the collection
\* stays as it is; 200 is for the caller's own document only, which is then
\* gone; and no document leaves the collection but by a delete of its id by
\* its owner.
DeleteStep ==
  /\ \A p \in VocabWorkers :
        ( vocab_workers[p].pc = "idle" /\ vocab_workers'[p].pc = "got" ) =>
           vocab_workers'[p].doc = vocab_document(vocab_workers'[p].vocab_id)
  /\ \A p \in VocabWorkers :
        ( vocab_workers[p].pc = "got" /\ vocab_workers'[p].pc = "done" ) =>
           LET doc == vocab_workers[p].doc
               user == vocab_workers[p].user
               vocab_id == vocab_workers[p].vocab_id
               status == vocab_workers'[p].status
           IN  /\ status \in {200, 403, 404}
               /\ status = 404 <=> doc = None
               /\ status = 403 <=> ( doc # None /\ doc[1].user_email # user )
               /\ status \in {403, 404} => user_vocabulary' = user_vocabulary
               /\ status = 200 =>
                     /\ doc[1].user_email = user
                     /\ user_vocabulary' = [ user_vocabulary EXCEPT ![vocab_id] = None ]
  /\ \A i \in 1..Len(user_vocabulary) :
        ( user_vocabulary[i] # None /\ user_vocabulary'[i] = None ) =>
           \E p \in VocabWorkers :
              /\ vocab_workers[p].op = "delete_vocabulary_item"
              /\ vocab_workers[p].vocab_id = i
              /\ vocab_workers[p].user = user_vocabulary[i][1].user_email
              /\ vocab_workers'[p].pc = "done"
              /\ vocab_workers'[p].status = 200

\* C23: every step of the vocabulary controller is such a step.
C23_DeleteOnlyOwnItem == [][DeleteStep]_vars

\* A delete of the document of another user has been refused with 403 and the
\* document is in the collection as it was.
C23_Witness ==
  \E p \in VocabWorkers :
     /\ vocab_workers[p].pc = "done"
     /\ vocab_workers[p].op = "delete_vocabulary_item"
     /\ vocab_workers[p].status = 403
     /\ vocab_workers[p].doc # None
     /\ vocab_workers[p].doc[1].user_email # vocab_workers[p].user
     /\ vocab_document(vocab_workers[p].vocab_id) = vocab_workers[p].doc

\* C25: no user has two documents in the collection with the same content and
\* the same vocab_type.
C25_NoDuplicateItems ==
  \A i, j \in 1..Len(user_vocabulary) :
     ( /\ i # j
       /\ user_vocabulary[i] # None
       /\ user_vocabulary[j] # None
       /\ user_vocabulary[i][1].user_email = user_vocabulary[j][1].user_email
       /\ user_vocabulary[i][1].content = user_vocabulary[j][1].content )
     => user_vocabulary[i][1].vocab_type # user_vocabulary[j][1].vocab_type

\* What the providers would say of an access token: token_1 is the token the
\* provider gave to the holder of id_1, whose email is a@example.com; the
\* provider knows no other token.
Verified(access_token, oauth_id, email) ==
  access_token = "token_1" /\ oauth_id = "id_1" /\ email = "a@example.com"

\* C24: kakao_login and naver_login give a token of the backend for an account
\* that was there before the request only to a request whose access_token is
\* the provider's for the identity the request states.
C24_TokenOnlyForVerifiedLogin ==
  ( /\ auth.op \in {"kakao_login", "naver_login"}
    /\ auth.token # None
    /\ ~auth.is_new_user )
  => Verified(auth.access_token, auth.oauth_id, auth.email)

\* C26: no two documents of the collection 'users' have the same email.
C26_EmailsUnique ==
  \A i, j \in 1..Len(users) : users[i].email = users[j].email => i = j

\* An OAuth login with the email of an account made by signup has been linked
\* to that account: a second account exists, nothing was added, and the
\* account with the password now has the OAuth identity of the request.
C26_Witness ==
  /\ auth.op \in {"kakao_login", "naver_login"}
  /\ auth.status = 200
  /\ ~auth.is_new_user
  /\ Len(users) = 2
  /\ \E i \in 1..2 :
        /\ users[i].email = auth.email
        /\ users[i].hashed_password
        /\ users[i].oauth_id = Some(auth.oauth_id)
        /\ auth.token = Some(create_access_token(auth.email, i))

\* The questions of the quiz of the submission in hand.
QuestionsSubmittedTo == quizzes[submitted.quiz_id].questions

\* C27: submit_quiz grades each submitted answer against the question whose
\* index is the answer's question_index and reports that index in the
\* feedback, wherever the answer stands in the submitted list: an accepted
\* submission's feedback has, for each answer naming a question of the quiz,
\* an item with that index, that answer and the verdict against that question.
C27_GradedByQuestionIndex ==
  submitted.status = 200 =>
    \A k \in 1..Len(submitted.answers) :
       LET answer == submitted.answers[k]
       IN  answer.question_index < Len(QuestionsSubmittedTo) =>
             \E n \in 1..Len(submitted.result[1].feedback) :
                LET item == submitted.result[1].feedback[n]
                    question == QuestionsSubmittedTo[answer.question_index + 1]
                IN  /\ item.question_index = answer.question_index
                    /\ item.user_answer = answer.user_answer
                    /\ item.is_correct = (strip(answer.user_answer)
                                            = strip(question.correct_answer))

\* A step that answers a submission.
SubmitStep == submitted.status = 0 /\ submitted'.status # 0

\* The answers of a list that stand at a place where the quiz has a question
\* and equal, stripped, that question's correct answer.
CorrectWithin(questions, answers) ==
  { k \in 1..Len(answers) :
      /\ k <= Len(questions)
      /\ strip(answers[k].user_answer) = strip(questions[k].correct_answer) }

\* C28: an accepted submission stores and returns one result with
\* 0 <= score <= total_questions, total_questions the number of questions of
\* the quiz; answers beyond the questions add nothing to the score; a quiz
\* with no questions gives percentage 0; a 404 or 403 adds no document to
\* 'quiz_results'.
C28_ScoreWithinTotal ==
  [][ SubmitStep =>
        IF submitted'.status = 200
        THEN LET result == submitted'.result[1]
                 questions == quizzes[submitted'.quiz_id].questions
             IN  /\ quiz_results' = Append(quiz_results, result)
                 /\ quizzes[submitted'.quiz_id].user_email = submitted'.user
                 /\ result.total_questions = Len(questions)
                 /\ 0 <= result.score
                 /\ result.score <= result.total_questions
                 /\ result.score
                      = Cardinality(CorrectWithin(questions, submitted'.answers))
                 /\ (questions = <<>> => result.percentage = 0)
        ELSE /\ submitted'.status \in {403, 404}
             /\ quiz_results' = quiz_results ]_vars

\* A submission with more answers than the quiz has questions, all the
\* questions answered correctly, has been accepted and stored.
C28_Witness ==
  /\ submitted.status = 200
  /\ Len(submitted.answers) > Len(QuestionsSubmittedTo)
  /\ submitted.result[1].score = 2
  /\ submitted.result[1].total_questions = 2
  /\ submitted.result[1].percentage = 100
  /\ quiz_results = << submitted.result[1] >>

\* The cases of C28 that refuse or have nothing to grade are reached too.
C28_Refused ==
  /\ submitted.status \in {403, 404}
  /\ quiz_results # <<>>

====
